---------------------------- MODULE Spec2Model ----------------------------
(***************************************************************************)
(* MediaUni: the plan store service (src/server.js) and the exam tracker   *)
(* client (src/src/App.tsx).                                               *)
(*                                                                         *)
(* Strings are sequences of atoms.  An atom is one character (" ", "-",    *)
(* ";", a digit ...) or a run of letters that no operation of the program  *)
(* ever splits ("Codice", "Algebra"); two strings are equal exactly when   *)
(* their atom sequences are equal.                                         *)
(* A number is an integer, an integer plus a fractional part, or NaN,       *)
(* which is what Number.isInteger and Math.floor need to tell apart.       *)
(***************************************************************************)
EXTENDS Integers, Sequences, FiniteSets, TLC

(***************************************************************************)
(* Bounds of the model                                                     *)
(***************************************************************************)
\* number of HTTP requests that may be in flight together
NReq == 2
\* longest rows array enumerated element by element in the single-request specification
MaxRowsLen == 2

(***************************************************************************)
(* Strings                                                                 *)
(***************************************************************************)
\* ECMAScript WhiteSpace and LineTerminator atoms, as stripped by String.prototype.trim
WhiteSpace == {" ", "\t", "\n", "\r", "BOM"}

Digits == {"0", "1", "2", "3", "4", "5", "6", "7", "8", "9"}

RECURSIVE TrimStart(_)
TrimStart(s) ==
    IF s # <<>> /\ Head(s) \in WhiteSpace THEN TrimStart(Tail(s)) ELSE s

RECURSIVE TrimEnd(_)
TrimEnd(s) ==
    IF s # <<>> /\ s[Len(s)] \in WhiteSpace
    THEN TrimEnd(SubSeq(s, 1, Len(s) - 1))
    ELSE s

\* String.prototype.trim
Trim(s) == TrimEnd(TrimStart(s))

\* CODE_RE = /^\d{2}-\d{2}$/ : CODE_RE.test(s)
CODE_RE(s) ==
    /\ Len(s) = 5
    /\ s[1] \in Digits
    /\ s[2] \in Digits
    /\ s[3] = "-"
    /\ s[4] \in Digits
    /\ s[5] \in Digits

(***************************************************************************)
(* JSON values of a request body                                           *)
(***************************************************************************)
JStr(s) == [t |-> "string", s |-> s, n |-> 0, k |-> "none"]
\* a number: the integer n (k = "int"), n plus a fractional part (k = "frac"), or NaN
JNum(n) == [t |-> "number", s |-> <<>>, n |-> n, k |-> "int"]
JFrac(n) == [t |-> "number", s |-> <<>>, n |-> n, k |-> "frac"]
NaN == [t |-> "number", s |-> <<>>, n |-> 0, k |-> "nan"]
JUndef == [t |-> "undefined", s |-> <<>>, n |-> 0, k |-> "none"]
JNull == [t |-> "null", s |-> <<>>, n |-> 0, k |-> "none"]

\* an element of the rows array: an object with its three fields, or something else
JObj(c, d, u) == [t |-> "object", codice |-> c, denominazione |-> d, cfu |-> u]
JNonObj(tag) == [t |-> tag, codice |-> JUndef, denominazione |-> JUndef, cfu |-> JUndef]

\* the rows member of the body: an array, or something else
JArr(items) == [t |-> "array", items |-> items]
JNoArr(tag) == [t |-> tag, items |-> <<>>]

\* Number.isInteger
NumberIsInteger(v) == v.t = "number" /\ v.k = "int"

\* the value of a string of digits
RECURSIVE DigitsValue(_)
DigitsValue(s) ==
    IF s = <<>> THEN 0
    ELSE 10 * DigitsValue(SubSeq(s, 1, Len(s) - 1))
         + (CHOOSE d \in 0..9 : ToString(d) = s[Len(s)])

\* a number: infinite
Infinity == [t |-> "number", s |-> <<>>, n |-> 0, k |-> "inf"]

\* Number(s) of a trimmed, non-empty string: [sign] digits [. digits], [sign] . digits,
\* or "Infinity"; anything else is NaN (the other literals of JavaScript, 1e3 or 0x10,
\* do not occur in the inputs). A value with a fractional part is kept as its floor n
\* and k = "frac".
StringToNumber(t) ==
    LET signed == t[1] \in {"-", "+"}
        neg == t[1] = "-"
        body == IF signed THEN Tail(t) ELSE t
        dot == {i \in 1..Len(body) : body[i] = "."}
        whole == IF dot = {} THEN body ELSE SubSeq(body, 1, (CHOOSE i \in dot : TRUE) - 1)
        decimals == IF dot = {} THEN <<>>
                    ELSE SubSeq(body, (CHOOSE i \in dot : TRUE) + 1, Len(body))
        wellFormed == /\ Cardinality(dot) <= 1
                      /\ \A i \in 1..Len(whole) : whole[i] \in Digits
                      /\ \A i \in 1..Len(decimals) : decimals[i] \in Digits
                      /\ Len(whole) + Len(decimals) >= 1
        fraction == \E i \in 1..Len(decimals) : decimals[i] # "0"
    IN IF body = <<"Infinity">> THEN Infinity
       ELSE IF ~wellFormed THEN NaN
       ELSE IF ~fraction THEN JNum(IF neg THEN 0 - DigitsValue(whole) ELSE DigitsValue(whole))
       ELSE JFrac(IF neg THEN 0 - DigitsValue(whole) - 1 ELSE DigitsValue(whole))

\* Number(v) of a number (itself), of a string (blank is 0), of null (0), of undefined (NaN)
Number(v) ==
    IF v.t = "number" THEN v
    ELSE IF v.t = "string"
         THEN IF Trim(v.s) = <<>> THEN JNum(0) ELSE StringToNumber(Trim(v.s))
         ELSE IF v.t = "null" THEN JNum(0) ELSE NaN

\* Number.isFinite
NumberIsFinite(v) == v.t = "number" /\ v.k \in {"int", "frac"}

\* v >= k and v <= k for a number v and an integer k (false for NaN)
NumGE(v, k) == NumberIsFinite(v) /\ v.n >= k
NumLE(v, k) == NumberIsFinite(v) /\ (IF v.k = "frac" THEN v.n < k ELSE v.n <= k)

\* JavaScript truthiness of a value (the `!code` and `r &&` tests)
Truthy(v) ==
    CASE v.t = "string" -> v.s # <<>>
      [] v.t = "number" -> v.k # "nan" /\ (v.n # 0 \/ v.k # "int")
      [] v.t = "object" -> TRUE
      [] v.t = "array" -> TRUE
      [] OTHER -> FALSE

\* a validation that forgets the type of cfu
isValidRowAnyCfu(r) ==
    /\ r.t = "object"
    /\ r.codice.t = "string"
    /\ r.denominazione.t = "string"

\* function isValidRow(r)
isValidRow(r) ==
    /\ r.t = "object"
    /\ r.codice.t = "string"
    /\ r.denominazione.t = "string"
    /\ NumberIsInteger(r.cfu)


(***************************************************************************)
(* Plan rows and their cleaning (POST /api/plans)                          *)
(***************************************************************************)
\* .slice(0, 200)
MAX_ROWS == 200

Min(a, b) == IF a <= b THEN a ELSE b

Max(a, b) == IF a >= b THEN a ELSE b

\* Array.prototype.map over a sequence
MapSeq(F(_), s) == [i \in 1..Len(s) |-> F(s[i])]

\* .map((r) => ({ codice: String(r.codice).trim(), ..., cfu: Number(r.cfu) }))
cleanRow(r) ==
    [codice |-> Trim(r.codice.s),
     denominazione |-> Trim(r.denominazione.s),
     cfu |-> Number(r.cfu)]

\* .filter((r) => r.codice && r.denominazione && Number.isInteger(r.cfu) && r.cfu >= 1 && r.cfu <= 30)
keepRow(r) ==
    /\ r.codice # <<>>
    /\ r.denominazione # <<>>
    /\ NumberIsInteger(r.cfu)
    /\ NumGE(r.cfu, 1)
    /\ NumLE(r.cfu, 30)

\* the variant that clamps cfu into 1..30 instead of dropping the row
cleanedClamping(items) ==
    LET clamp(r) == [cleanRow(r) EXCEPT !.cfu = JNum(Max(1, Min(30, r.cfu.n)))]
        all == SelectSeq(MapSeq(clamp, items), keepRow)
    IN SubSeq(all, 1, Min(Len(all), MAX_ROWS))

\* the variant that forgets to trim the two strings
cleanedNoTrim(items) ==
    LET raw(r) == [codice |-> r.codice.s, denominazione |-> r.denominazione.s,
                   cfu |-> Number(r.cfu)]
        all == SelectSeq(MapSeq(raw, items), keepRow)
    IN SubSeq(all, 1, Min(Len(all), MAX_ROWS))

\* const cleaned = rows.map(...).filter(...).slice(0, 200)
cleaned(items) ==
    LET all == SelectSeq(MapSeq(cleanRow, items), keepRow)
    IN SubSeq(all, 1, Min(Len(all), MAX_ROWS))

(***************************************************************************)
(* The plans table behind the supabase client                              *)
(***************************************************************************)
\* messages of the store; a message is a sequence of words
DuplicateKeyMsg == <<"duplicate", "key", "value", "violates", "unique", "constraint">>
MultipleRowsMsg == <<"JSON", "object", "requested,", "multiple", "rows", "returned">>
TimeoutMsg == <<"upstream", "request", "timeout">>
FetchFailedMsg == <<"fetch", "failed">>
NoMsg == <<>>

\* how a call to the store may end: it answers, it answers with an error, or the call throws
Outcomes == {"ok", "error", "throw"}

FaultMsg(outcome) ==
    CASE outcome = "error" -> TimeoutMsg
      [] outcome = "throw" -> FetchFailedMsg
      [] OTHER -> NoMsg

\* .select(...).eq("code", code).maybeSingle(): no row is null, one row is the data,
\* more than one row is an error
DbSelectMaybeSingle(tbl, code) ==
    LET found == {d \in tbl : d.code = code}
    IN IF Cardinality(found) > 1
       THEN [error |-> MultipleRowsMsg, data |-> {}]
       ELSE [error |-> NoMsg, data |-> found]

\* an insert into a table whose code column is unique: a second row with the same
\* code is rejected with the duplicate-key error
DbInsert(tbl, doc) ==
    IF \E d \in tbl : d.code = doc.code
    THEN [error |-> DuplicateKeyMsg, data |-> {}, table |-> tbl]
    ELSE [error |-> NoMsg, data |-> {doc}, table |-> tbl \cup {doc}]

\* an upsert: replaces the row with the same code
DbUpsert(tbl, doc) ==
    [error |-> NoMsg, data |-> {doc},
     table |-> {d \in tbl : d.code # doc.code} \cup {doc}]

\* the statement the handler would issue if it overwrote existing plans
plansUpsert(tbl, payload) == DbUpsert(tbl, payload)

\* supabase.from("plans").insert(payload).select("code,rows,updated_at").single()
plansInsert(tbl, payload) == DbInsert(tbl, payload)

\* String.prototype.toLowerCase on the words of a message
ToLowerWord(w) ==
    CASE w = "Duplicate" -> "duplicate"
      [] w = "JSON" -> "json"
      [] OTHER -> w

\* a handler that reports every insert error as an internal error
neverDuplicate(msg) == FALSE

\* String(error.message || "").toLowerCase().includes("duplicate")
isDuplicateError(msg) ==
    \E i \in 1..Len(msg) : ToLowerWord(msg[i]) = "duplicate"

(***************************************************************************)
(* State                                                                   *)
(***************************************************************************)
VARIABLES
    table,         \* the rows of the plans table: records [code, rows, updated_at]
    clock,         \* the server's time: it advances whenever a handler reads it
    reqs,          \* the HTTP requests: for each, its input, its position and its reply
    exams,         \* client: the exam list, records [id, name, cfu, grade]
    whatIfExamId,  \* client: the id selected for the what-if simulation, 0 for ""
    status,        \* client: the status message
    statusTimer,   \* client: TRUE while the timer of flashStatus is running
    course,        \* client: courseXX and courseYY
    imp,           \* client: the import in progress (handleCsvUpload / onPickPlanFile)
    nextId,        \* client: the ids makeId has handed out so far, plus one
    whatIfGrade,   \* client: the text of the what-if grade input
    lookup,        \* client: the lookup modal (lookupOpen, lookupXX, ..., selectedIdx)
    csv,           \* a CSV table written with both separators, and what parseCsvAuto made of it
    storage        \* client: localStorage, the item under STORAGE_KEY and whether a write throws

serverVars == <<table, clock, reqs>>
viewVars == <<whatIfGrade, lookup, csv>>
clientVars == <<exams, whatIfExamId, status, statusTimer, course, imp, nextId,
                whatIfGrade, lookup, csv, storage>>
vars == <<table, clock, reqs, exams, whatIfExamId, status, statusTimer, course, imp, nextId,
          whatIfGrade, lookup, csv, storage>>

Req == 1..NReq

\* messages of the handlers
BadCodeMsg == <<"Bad", "code">>
NoCodeMsg == <<"No", "code">>
NoRowsMsg == <<"No", "rows">>
BadRowsMsg == <<"Bad", "rows", "format">>
NoValidRowsMsg == <<"No", "valid", "rows", "after", "cleaning">>
NotFoundMsg == <<"Not", "found">>
ExistsMsg == <<"Plan", "already", "exists">>

\* a request nobody has sent yet
IdleReq ==
    [method |-> "none", code |-> JUndef, rows |-> JNoArr("undefined"),
     pc |-> "idle", codeTrim |-> <<>>, payload |-> {},
     status |-> 0, ok |-> "none", error |-> NoMsg, rcode |-> <<>>, data |-> {},
     reads |-> 0, writes |-> 0, fault |-> NoMsg, after |-> {}]

\* res.status(code).json({ok, error, code: rcode, ...data}) and return
Reply(r, code, ok, error, rcode, data) ==
    [r EXCEPT !.pc = "done", !.status = code, !.ok = ok, !.error = error,
              !.rcode = rcode, !.data = data]

\* the conflict reported as a plain failure
conflictAs500(r) == Reply(r, 500, "none", ExistsMsg, <<>>, {})

\* res.status(409).json({ ok: false, error: "Plan already exists", code: codeTrim })
conflict(r) == Reply(r, 409, "false", ExistsMsg, r.codeTrim, {})

(***************************************************************************)
(* GET /api/plans/:code                                                    *)
(***************************************************************************)
\* a GET that looks the raw parameter up without trimming it
getStartNoTrim(r, before, param) ==
    LET code == param
        q == [r EXCEPT !.method = "GET", !.code = JStr(param), !.after = before]
    IN IF ~CODE_RE(code)
       THEN Reply(q, 400, "none", BadCodeMsg, <<>>, {})
       ELSE [q EXCEPT !.pc = "select", !.codeTrim = code, !.reads = 1]

\* lines 60-67: trim, test the shape, send the select
getStart(r, before, param) ==
    LET code == Trim(param)
        q == [r EXCEPT !.method = "GET", !.code = JStr(param), !.after = before]
    IN IF ~CODE_RE(code)
       THEN Reply(q, 400, "none", BadCodeMsg, <<>>, {})
       ELSE [q EXCEPT !.pc = "select", !.codeTrim = code, !.reads = 1]

\* a GET that answers 200 with no check of data
getResultNo404(r, res) ==
    IF res.error # NoMsg
    THEN Reply(r, 500, "none", res.error, <<>>, {})
    ELSE Reply(r, 200, "none", NoMsg, <<>>, res.data)

\* a GET whose select names the columns code and updated_at only
getResultNoRows(r, res) ==
    IF res.error # NoMsg
    THEN Reply(r, 500, "none", res.error, <<>>, {})
    ELSE IF res.data = {}
         THEN Reply(r, 404, "none", NotFoundMsg, <<>>, {})
         ELSE Reply(r, 200, "none", NoMsg, <<>>, {[d EXCEPT !.rows = <<>>] : d \in res.data})

\* lines 69-72: the reply to the result {data, error} of the select
getResult(r, res) ==
    IF res.error # NoMsg
    THEN Reply(r, 500, "none", res.error, <<>>, {})
    ELSE IF res.data = {}
         THEN Reply(r, 404, "none", NotFoundMsg, <<>>, {})
         ELSE Reply(r, 200, "none", NoMsg, <<>>, res.data)

\* lines 73-75: catch (e)
caught(r, msg) == Reply(r, 500, "none", msg, <<>>, {})

(***************************************************************************)
(* POST /api/plans                                                         *)
(***************************************************************************)
\* a POST that tests the shape of the code but goes on with the raw code
postStartNoTrim(r, before, code, rows) ==
    LET q == [r EXCEPT !.method = "POST", !.code = code, !.rows = rows, !.after = before]
        bad(msg) == Reply(q, 400, "none", msg, <<>>, {})
    IN IF ~Truthy(code) \/ code.t # "string" THEN bad(NoCodeMsg)
       ELSE IF ~CODE_RE(Trim(code.s)) THEN bad(BadCodeMsg)
       ELSE IF rows.t # "array" \/ Len(rows.items) = 0 THEN bad(NoRowsMsg)
       ELSE IF \E i \in 1..Len(rows.items) : ~isValidRow(rows.items[i]) THEN bad(BadRowsMsg)
       ELSE IF Len(cleaned(rows.items)) = 0 THEN bad(NoValidRowsMsg)
       ELSE [q EXCEPT !.pc = "check", !.codeTrim = code.s, !.reads = 1,
                      !.payload = {[code |-> code.s, rows |-> cleaned(rows.items), updated_at |-> 0]}]

\* lines 80-118: validate code and rows, clean, send the existence check.
\* The payload keeps the cleaned rows; its updated_at is set when the check has answered.
postStart(r, before, code, rows) ==
    LET q == [r EXCEPT !.method = "POST", !.code = code, !.rows = rows, !.after = before]
        bad(msg) == Reply(q, 400, "none", msg, <<>>, {})
    IN IF ~Truthy(code) \/ code.t # "string" THEN bad(NoCodeMsg)
       ELSE IF ~CODE_RE(Trim(code.s)) THEN bad(BadCodeMsg)
       ELSE IF rows.t # "array" \/ Len(rows.items) = 0 THEN bad(NoRowsMsg)
       ELSE IF \E i \in 1..Len(rows.items) : ~isValidRow(rows.items[i]) THEN bad(BadRowsMsg)
       ELSE IF Len(cleaned(rows.items)) = 0 THEN bad(NoValidRowsMsg)
       ELSE [q EXCEPT !.pc = "check", !.codeTrim = Trim(code.s), !.reads = 1,
                      !.payload = {[code |-> Trim(code.s), rows |-> cleaned(rows.items),
                                    updated_at |-> 0]}]

\* a POST that takes a failed existence check for "no such plan"
postCheckedIgnoringError(r, now, res) ==
    IF res.data # {}
    THEN conflict(r)
    ELSE [r EXCEPT !.pc = "insert", !.writes = 1,
                   !.payload = {[d EXCEPT !.updated_at = now] : d \in r.payload}]

\* lines 120-134: the reply to the existence check, or the insert with the timestamp
postChecked(r, now, res) ==
    IF res.error # NoMsg
    THEN Reply(r, 500, "none", res.error, <<>>, {})
    ELSE IF res.data # {}
         THEN conflict(r)
         ELSE [r EXCEPT !.pc = "insert", !.writes = 1,
                        !.payload = {[d EXCEPT !.updated_at = now] : d \in r.payload}]

\* lines 136-144: the reply to the result {data, error} of the insert
postInserted(r, res) ==
    IF res.error # NoMsg
    THEN IF isDuplicateError(res.error)
         THEN conflict(r)
         ELSE Reply(r, 500, "none", res.error, <<>>, {})
    ELSE Reply(r, 200, "true", NoMsg, <<>>, res.data)

(***************************************************************************)
(* Inputs                                                                  *)
(***************************************************************************)
CodeA == <<"0", "7", "-", "8", "9">>
CodeB == <<"1", "2", "-", "3", "4">>
\* " 07-89 ": CodeA with surrounding blanks
PadA == <<" ">> \o CodeA \o <<" ">>
\* "7-89", "07-890", "ab-cd"
ShortCode == <<"7", "-", "8", "9">>
LongCode == CodeA \o <<"0">>
LetterCode == <<"ab", "-", "cd">>

RowGood == JObj(JStr(<<"X1">>), JStr(<<"Algebra">>), JNum(6))
RowAlt == JObj(JStr(<<"X4">>), JStr(<<"Logica">>), JNum(1))
RowPadded == JObj(JStr(<<" ", "X2", " ">>), JStr(<<"\t", "Fisica", " ", "1">>), JNum(30))
RowOver == JObj(JStr(<<"X3">>), JStr(<<"Chimica">>), JNum(31))
RowZero == JObj(JStr(<<"X5">>), JStr(<<"Storia">>), JNum(0))
RowBlank == JObj(JStr(<<" ">>), JStr(<<"Diritto">>), JNum(6))
RowHalf == JObj(JStr(<<"X6">>), JStr(<<"Etica">>), JFrac(2))
RowStrCfu == JObj(JStr(<<"X7">>), JStr(<<"Ottica">>), JStr(<<"6">>))
RowNoCodice == JObj(JUndef, JStr(<<"Ottica">>), JNum(6))

\* the requests of the specification with concurrent requests
GetParams == {CodeA, CodeB, PadA, ShortCode}
PostCodes == {JStr(CodeA), JStr(CodeB), JStr(PadA), JStr(ShortCode), JUndef}
PostRows ==
    {JNoArr("undefined"), JArr(<<>>), JArr(<<RowGood>>), JArr(<<RowPadded, RowOver>>),
     JArr(<<RowOver>>)}

\* all sequences over S of length at most n
RECURSIVE SeqsUpTo(_, _)
SeqsUpTo(S, n) ==
    IF n = 0 THEN {<<>>}
    ELSE LET shorter == SeqsUpTo(S, n - 1)
         IN shorter \cup {Append(q, x) : q \in shorter, x \in S}

\* a rows array longer than the cap: row i has codice <<"K", i>> so that order shows
LongItems(n) ==
    [i \in 1..n |-> IF i % 7 = 3 THEN RowOver
                    ELSE JObj(JStr(<<"K", ToString(i)>>), JStr(<<"Corso">>), JNum(1 + (i % 30)))]

\* the requests of the specification with a single request
RichParams == GetParams \cup {LongCode, LetterCode, <<" ">>}
RichCodes ==
    PostCodes \cup {JStr(LongCode), JStr(LetterCode), JStr(<<>>), JNum(7), JNull}
RichElems ==
    {RowGood, RowAlt, RowPadded, RowOver, RowZero, RowBlank, RowHalf, RowStrCfu,
     RowNoCodice, JNonObj("null"), JNonObj("string")}
RichRows ==
    {JNoArr("undefined"), JNoArr("string"), JNoArr("object")}
        \cup {JArr(q) : q \in SeqsUpTo(RichElems, MaxRowsLen)}
        \cup {JArr(LongItems(MAX_ROWS)), JArr(LongItems(MAX_ROWS + 40))}

\* a plan stored earlier under CodeA
SeedDoc ==
    [code |-> CodeA, rows |-> <<[codice |-> <<"S1">>, denominazione |-> <<"Analisi">>,
                       cfu |-> JNum(9)]>>,
     updated_at |-> 0]

(***************************************************************************)
(* Actions                                                                 *)
(***************************************************************************)
\* the requests that have been answered
Done == {q \in Req : reqs[q].pc = "done"}

\* the result of a call to the store that ends in `outcome`
Answer(outcome, res) ==
    IF outcome = "ok" THEN res ELSE [error |-> FaultMsg(outcome), data |-> {}]

\* a client sends GET /api/plans/<param>; requests are numbered in the order they arrive
StartGet(r, Params) ==
    /\ reqs[r].pc = "idle"
    /\ IF r = 1 THEN TRUE ELSE reqs[r - 1].pc # "idle"
    /\ \E param \in Params :
         reqs' = [reqs EXCEPT ![r] = getStart(reqs[r], Done, param)]
    /\ UNCHANGED <<table, clock>>
    /\ UNCHANGED clientVars

\* the store answers the select of a GET and the handler replies
GetSelect(r) ==
    /\ reqs[r].pc = "select"
    /\ \E o \in Outcomes :
         LET q == [reqs[r] EXCEPT !.fault = IF o = "ok" THEN @ ELSE FaultMsg(o)]
             res == Answer(o, DbSelectMaybeSingle(table, q.codeTrim))
         IN reqs' = [reqs EXCEPT ![r] = IF o = "throw"
                                        THEN caught(q, FaultMsg(o))
                                        ELSE getResult(q, res)]
    /\ UNCHANGED <<table, clock>>
    /\ UNCHANGED clientVars

\* a client sends POST /api/plans with body {code, rows}
StartPost(r, Codes, Rows) ==
    /\ reqs[r].pc = "idle"
    /\ IF r = 1 THEN TRUE ELSE reqs[r - 1].pc # "idle"
    /\ \E code \in Codes, rows \in Rows :
         reqs' = [reqs EXCEPT ![r] = postStart(reqs[r], Done, code, rows)]
    /\ UNCHANGED <<table, clock>>
    /\ UNCHANGED clientVars

\* the store answers the existence check of a POST
PostCheck(r) ==
    /\ reqs[r].pc = "check"
    /\ \E o \in Outcomes :
         LET q == [reqs[r] EXCEPT !.fault = IF o = "ok" THEN @ ELSE FaultMsg(o)]
             res == Answer(o, DbSelectMaybeSingle(table, q.codeTrim))
         IN reqs' = [reqs EXCEPT ![r] = IF o = "throw"
                                        THEN caught(q, FaultMsg(o))
                                        ELSE postChecked(q, clock + 1, res)]
    /\ clock' = IF reqs'[r].pc = "insert" THEN clock + 1 ELSE clock
    /\ UNCHANGED table
    /\ UNCHANGED clientVars

\* the store executes the insert of a POST and the handler replies
PostInsert(r) ==
    /\ reqs[r].pc = "insert"
    /\ \E o \in Outcomes, doc \in reqs[r].payload :
         LET q == [reqs[r] EXCEPT !.fault = IF o = "ok" THEN @ ELSE FaultMsg(o)]
             done == plansInsert(table, doc)
             res == Answer(o, [error |-> done.error, data |-> done.data])
         IN /\ table' = IF o = "ok" THEN done.table ELSE table
            /\ reqs' = [reqs EXCEPT ![r] = IF o = "throw"
                                           THEN caught(q, FaultMsg(o))
                                           ELSE postInserted(q, res)]
    /\ UNCHANGED clock
    /\ UNCHANGED clientVars

(***************************************************************************)
(* Properties of the plan store service                                    *)
(***************************************************************************)
IsPost(r) == reqs[r].method = "POST"
IsGet(r) == reqs[r].method = "GET"
Answered(r) == reqs[r].pc = "done"
NoFault(r) == reqs[r].fault = NoMsg
Success(r) == Answered(r) /\ reqs[r].status = 200
\* the code a request names, once surrounding whitespace is removed
NamedCode(r) == IF reqs[r].code.t = "string" THEN Trim(reqs[r].code.s) ELSE <<>>
Stored(code) == {d \in table : d.code = code}

\* C1: insert-once. Every step of every request keeps each stored document as it is
\* (same code, rows and updated_at), so the set of stored codes only grows.
C1_InsertOnce == [][table \subseteq table']_vars

\* a plan was stored, and a later POST and a racing POST of the same code have been answered
C1_Witness ==
    \E p, q \in Req :
        /\ p # q /\ IsPost(p) /\ IsPost(q)
        /\ Success(p) /\ Answered(q)
        /\ reqs[q].codeTrim = reqs[p].codeTrim
        /\ reqs[q].payload # reqs[p].payload
        /\ Stored(reqs[p].codeTrim) = reqs[p].payload

\* the POSTs of `code` that sent their insert (their existence check found no plan)
\* and whose insert the store executed or will execute
Racers(code) ==
    {r \in Req : /\ IsPost(r)
                 /\ reqs[r].codeTrim = code
                 /\ reqs[r].writes = 1
                 /\ NoFault(r)}

\* C2: check-then-insert race. When two or more POSTs of one code all passed the
\* existence check and all have been answered, exactly one answers 200 ok:true, the
\* others answer 409 ok:false, and the store holds one document for the code, the winner's.
C2_Race ==
    \A code \in {reqs[r].codeTrim : r \in Req} :
        LET R == Racers(code)
        IN (Cardinality(R) >= 2 /\ \A r \in R : Answered(r)) =>
             \E w \in R :
                 /\ reqs[w].status = 200 /\ reqs[w].ok = "true"
                 /\ reqs[w].data = reqs[w].payload
                 /\ Stored(code) = reqs[w].payload
                 /\ Cardinality(Stored(code)) = 1
                 /\ \A l \in R \ {w} :
                        /\ reqs[l].status = 409
                        /\ reqs[l].ok = "false"
                        /\ reqs[l].error = ExistsMsg

\* two POSTs of one code with different rows raced, and both have been answered
C2_Witness ==
    \E p, q \in Req :
        /\ p # q
        /\ {p, q} \subseteq Racers(reqs[p].codeTrim)
        /\ Answered(p) /\ Answered(q)
        /\ reqs[p].rows # reqs[q].rows
        /\ reqs[p].status = 200

\* rows that pass the validation and leave at least one row after cleaning
RowsAcceptable(rows) ==
    /\ rows.t = "array"
    /\ Len(rows.items) > 0
    /\ \A i \in 1..Len(rows.items) : isValidRow(rows.items[i])
    /\ \E i \in 1..Len(rows.items) : keepRow(cleanRow(rows.items[i]))

\* q is a POST of the code of p, sent after p was answered with success; no store failure
Resubmitted(p, q) ==
    /\ p # q /\ IsPost(p) /\ IsPost(q)
    /\ Success(p) /\ Answered(q)
    /\ p \in reqs[q].after
    /\ NamedCode(q) = reqs[p].codeTrim
    /\ NoFault(p) /\ NoFault(q)

\* C3 as stated: the second POST of a code answers 409 whatever rows it carries,
\* and the stored document is still the first one's.
C3_AsStated ==
    \A p, q \in Req :
        Resubmitted(p, q) =>
            /\ reqs[q].status = 409 /\ reqs[q].ok = "false"
            /\ Stored(reqs[p].codeTrim) = reqs[p].data

\* C3 (amended): the second POST of a code answers 409 ok:false when its rows pass
\* validation and cleaning, and 400 when they do not; either way the stored document
\* is still the one the first POST stored.
C3_IdempotentRejection ==
    \A p, q \in Req :
        Resubmitted(p, q) =>
            /\ reqs[p].ok = "true"
            /\ RowsAcceptable(reqs[q].rows) => (reqs[q].status = 409 /\ reqs[q].ok = "false")
            /\ ~RowsAcceptable(reqs[q].rows) => reqs[q].status = 400
            /\ Stored(reqs[p].codeTrim) = reqs[p].data
            /\ reqs[p].data = reqs[p].payload

\* a second POST with other, acceptable rows was rejected after the first had succeeded
C3_Witness ==
    \E p, q \in Req :
        /\ Resubmitted(p, q)
        /\ RowsAcceptable(reqs[q].rows)
        /\ reqs[q].rows # reqs[p].rows
        /\ reqs[q].status = 409

NonBlankTrimmed(str) ==
    /\ str # <<>>
    /\ str[1] \notin WhiteSpace
    /\ str[Len(str)] \notin WhiteSpace

\* C5: stored-document invariant. Every stored document has a code of the form
\* dd-dd, between 1 and 200 rows, and in every row an integer cfu in 1..30 and a
\* codice and a denominazione that are not blank and carry no surrounding whitespace.
C5_StoredDocument ==
    \A d \in table :
        /\ Len(d.code) = 5
        /\ \A i \in {1, 2, 4, 5} : d.code[i] \in Digits
        /\ d.code[3] = "-"
        /\ Len(d.rows) >= 1
        /\ Len(d.rows) <= 200
        /\ \A i \in 1..Len(d.rows) :
               /\ d.rows[i].cfu.t = "number"
               /\ d.rows[i].cfu.k = "int"
               /\ d.rows[i].cfu.n \in 1..30
               /\ NonBlankTrimmed(d.rows[i].codice)
               /\ NonBlankTrimmed(d.rows[i].denominazione)

\* a stored document that was cut to 200 rows, under a code that was sent with blanks around it
C5_Witness ==
    /\ Answered(1) /\ IsPost(1) /\ reqs[1].status = 200
    /\ reqs[1].payload \subseteq table
    /\ \E d \in reqs[1].payload :
           /\ Len(d.rows) = 200
           /\ Len(reqs[1].rows.items) > 200
           /\ reqs[1].code = JStr(PadA)

\* the submitted rows that cleaning keeps: the positions, in submitted order, of the
\* rows whose trimmed strings are not empty and whose cfu is an integer in 1..30
Survivors(items) ==
    {i \in 1..Len(items) :
        /\ Trim(items[i].codice.s) # <<>>
        /\ Trim(items[i].denominazione.s) # <<>>
        /\ items[i].cfu.k = "int"
        /\ items[i].cfu.n >= 1
        /\ items[i].cfu.n <= 30}

\* a submitted row with non-blank strings and an integer cfu outside 1..30
OutOfRange(item) ==
    /\ Trim(item.codice.s) # <<>>
    /\ Trim(item.denominazione.s) # <<>>
    /\ item.cfu.k = "int"
    /\ (item.cfu.n < 1 \/ item.cfu.n > 30)

\* C6 as stated: a row with cfu outside 1..30 is stored with its cfu clamped to the
\* nearest bound (checked on submissions short enough for the cap not to matter).
C6_AsStated ==
    \A r \in Req :
        (IsPost(r) /\ Success(r) /\ Len(reqs[r].rows.items) <= 200) =>
            \A d \in reqs[r].payload :
                \A i \in 1..Len(reqs[r].rows.items) :
                    LET item == reqs[r].rows.items[i]
                    IN OutOfRange(item) =>
                         \E j \in 1..Len(d.rows) :
                             /\ d.rows[j].codice = Trim(item.codice.s)
                             /\ d.rows[j].denominazione = Trim(item.denominazione.s)
                             /\ d.rows[j].cfu = JNum(IF item.cfu.n > 30 THEN 30 ELSE 1)

\* C6 (amended): POST cleaning drops, and does not clamp, a row whose cfu is outside
\* 1..30: the stored rows are the first 200 of the submitted rows that have non-blank
\* strings and an integer cfu in 1..30, trimmed, in submitted order, cfu unchanged.
C6_Cleaning ==
    \A r \in Req :
        (IsPost(r) /\ Success(r)) =>
            \A d \in reqs[r].payload :
                LET items == reqs[r].rows.items
                    S == Survivors(items)
                    rank(i) == Cardinality({k \in S : k <= i})
                IN /\ d \in table
                   /\ Len(d.rows) = IF Cardinality(S) <= 200 THEN Cardinality(S) ELSE 200
                   /\ \A i \in S :
                          rank(i) <= 200 =>
                              /\ d.rows[rank(i)].codice = Trim(items[i].codice.s)
                              /\ d.rows[rank(i)].denominazione = Trim(items[i].denominazione.s)
                              /\ d.rows[rank(i)].cfu = items[i].cfu

\* a stored plan whose submission had out-of-range rows and more than 200 survivors
C6_Witness ==
    \E r \in Req :
        /\ IsPost(r) /\ Success(r)
        /\ reqs[r].payload \subseteq table
        /\ \E i \in 1..Len(reqs[r].rows.items) : OutOfRange(reqs[r].rows.items[i])
        /\ Cardinality(Survivors(reqs[r].rows.items)) > 200

\* an element of rows that is an object with string codice, string denominazione, integer cfu
WellFormedRow(e) ==
    /\ e.t = "object"
    /\ e.codice.t = "string"
    /\ e.denominazione.t = "string"
    /\ e.cfu.t = "number" /\ e.cfu.k = "int"

\* rows that are no non-empty array, hold a malformed element, or are all removed by cleaning
RejectedRows(rows) ==
    \/ rows.t # "array"
    \/ Len(rows.items) = 0
    \/ \E i \in 1..Len(rows.items) : ~WellFormedRow(rows.items[i])
    \/ Survivors(rows.items) = {}

\* what a POST that arrives in this step and must be refused does
RefusedAtOnce(r) ==
    /\ reqs'[r].pc = "done"
    /\ reqs'[r].status = 400
    /\ reqs'[r].reads = 0
    /\ reqs'[r].writes = 0
    /\ table' = table

Arrives(r, method) == reqs[r].pc = "idle" /\ reqs'[r].method = method

\* C7 as stated: a POST whose code, as sent, is missing, no string or not of the form
\* dd-dd, or whose rows are rejected, answers 400 without reading or writing the store.
C7_AsStated ==
    [][\A r \in Req :
          ( /\ Arrives(r, "POST")
            /\ \/ reqs'[r].code.t # "string"
               \/ ~CODE_RE(reqs'[r].code.s)
               \/ RejectedRows(reqs'[r].rows) ) => RefusedAtOnce(r)]_vars

\* C7 (amended): a POST whose code is missing, no string or, after surrounding
\* whitespace is trimmed, not of the form dd-dd, or whose rows are rejected, answers
\* 400, performs no read or write on the store and leaves the store unchanged.
C7_PostValidation ==
    [][\A r \in Req :
          ( /\ Arrives(r, "POST")
            /\ \/ reqs'[r].code.t # "string"
               \/ ~CODE_RE(Trim(reqs'[r].code.s))
               \/ RejectedRows(reqs'[r].rows) ) => RefusedAtOnce(r)]_vars

\* a POST with a stored, well-formed code was refused because cleaning removed all its rows
C7_Witness ==
    \E r \in Req :
        /\ IsPost(r) /\ Answered(r) /\ reqs[r].status = 400
        /\ CODE_RE(NamedCode(r))
        /\ Stored(NamedCode(r)) # {}
        /\ reqs[r].rows.t = "array"
        /\ Len(reqs[r].rows.items) > 0
        /\ \A i \in 1..Len(reqs[r].rows.items) : WellFormedRow(reqs[r].rows.items[i])
        /\ reqs[r].reads = 0

\* the reply of a GET whose select the store answers in this step
Selected(r) == reqs[r].pc = "select" /\ reqs'[r].pc = "done" /\ reqs'[r].fault = NoMsg

GetLookup(r) ==
    /\ (reqs'[r].status = 404) <=> (Stored(reqs[r].codeTrim) = {})
    /\ Stored(reqs[r].codeTrim) # {} =>
           /\ reqs'[r].status = 200
           /\ reqs'[r].data = Stored(reqs[r].codeTrim)
           /\ Cardinality(reqs'[r].data) = 1
    /\ table' = table

\* C8 as stated: a GET answers 400 exactly when the code, as sent, does not match dd-dd.
C8_AsStated ==
    [][\A r \in Req :
          /\ Arrives(r, "GET") =>
                 /\ (reqs'[r].status = 400) <=> ~CODE_RE(reqs'[r].code.s)
                 /\ reqs'[r].status = 400 => (reqs'[r].pc = "done" /\ reqs'[r].reads = 0)
                 /\ table' = table
          /\ Selected(r) => GetLookup(r)]_vars

\* C8 (amended): a GET answers 400 exactly when the code, after surrounding
\* whitespace is trimmed, does not match dd-dd, and then does not read the store;
\* otherwise, unless the store fails, it answers 404 exactly when no document with
\* the trimmed code is stored and else 200 with that single document; it never
\* changes the store.
C8_GetContract ==
    [][\A r \in Req :
          /\ Arrives(r, "GET") =>
                 /\ (reqs'[r].status = 400) <=> ~CODE_RE(Trim(reqs'[r].code.s))
                 /\ reqs'[r].status = 400 => (reqs'[r].pc = "done" /\ reqs'[r].reads = 0)
                 /\ reqs'[r].status # 400 => reqs'[r].codeTrim = Trim(reqs'[r].code.s)
                 /\ table' = table
          /\ Selected(r) => GetLookup(r)]_vars

\* a GET of a stored code, sent with blanks around it, was answered 200
C8_Witness ==
    \E g \in Req :
        /\ IsGet(g) /\ Answered(g)
        /\ reqs[g].code = JStr(PadA)
        /\ reqs[g].status = 200
        /\ reqs[g].data = Stored(CodeA)

\* C9: storage failure. A request whose read, existence check or insert the store
\* fails (for a reason other than a duplicate key) is answered in that step with 500
\* and the store's message, not with success or conflict, and nothing of it is stored.
C9_StorageFailure ==
    [][\A r \in Req :
          (reqs'[r] # reqs[r] /\ reqs'[r].fault # NoMsg) =>
              /\ reqs'[r].pc = "done"
              /\ reqs'[r].status = 500
              /\ reqs'[r].error = reqs'[r].fault
              /\ reqs'[r].ok = "none"
              /\ reqs'[r].data = {}
              /\ table' = table
              /\ reqs'[r].payload \cap table' = {}]_vars

\* the store failed the insert of one POST and the existence check of another
C9_Witness ==
    \E p, q \in Req :
        /\ IsPost(p) /\ reqs[p].writes = 1 /\ reqs[p].fault = TimeoutMsg /\ reqs[p].status = 500
        /\ IsPost(q) /\ reqs[q].writes = 0 /\ reqs[q].fault = FetchFailedMsg /\ reqs[q].status = 500

(***************************************************************************)
(* CSV text (src/src/App.tsx)                                              *)
(***************************************************************************)
\* String.prototype.split on one separator atom
RECURSIVE SplitOn(_, _)
SplitOn(s, sep) ==
    IF \A i \in 1..Len(s) : s[i] # sep
    THEN <<s>>
    ELSE LET k == CHOOSE i \in 1..Len(s) : s[i] = sep /\ \A j \in 1..(i - 1) : s[j] # sep
         IN <<SubSeq(s, 1, k - 1)>> \o SplitOn(SubSeq(s, k + 1, Len(s)), sep)

\* text.split(/\r?\n/): split on "\n" and drop the "\r" that ends a line before it
SplitLines(text) ==
    LET parts == SplitOn(text, "\n")
        chomp(i) == IF i < Len(parts) /\ parts[i] # <<>> /\ parts[i][Len(parts[i])] = "\r"
                    THEN SubSeq(parts[i], 1, Len(parts[i]) - 1)
                    ELSE parts[i]
    IN [i \in 1..Len(parts) |-> chomp(i)]

\* s.replace(/^\uFEFF/, "")
StripBom(s) == IF s # <<>> /\ s[1] = "BOM" THEN Tail(s) ELSE s

\* s.replace(/^"|"$/g, ""): drop a quote at the start and a quote at the end
StripQuotes(s) ==
    LET a == IF s # <<>> /\ s[1] = "\"" THEN Tail(s) ELSE s
    IN IF a # <<>> /\ a[Len(a)] = "\"" THEN SubSeq(a, 1, Len(a) - 1) ELSE a

\* (line.match(/c/g) ?? []).length
CountOf(s, c) == Cardinality({i \in 1..Len(s) : s[i] = c})

\* the value of key h in the object built by headers.forEach((h, i) => obj[h] = ...):
\* the last column named h wins; a key never set is undefined (the empty set here)
Field(headers, values, h) ==
    LET at == {i \in 1..Len(headers) : headers[i] = h}
    IN IF at = {} THEN {}
       ELSE {values[CHOOSE i \in at : \A j \in at : j <= i]}

\* a parser that splits on the semicolon whatever the header line holds
parseCsvSemicolon(text) ==
    LET lines == SelectSeq(SplitLines(StripBom(text)), LAMBDA l : Trim(l) # <<>>)
    IN IF Len(lines) < 2
       THEN [headers |-> <<>>, rows |-> <<>>, sep |-> ";"]
       ELSE LET headers == MapSeq(LAMBDA h : StripQuotes(StripBom(Trim(h))),
                                  SplitOn(lines[1], ";"))
                cells(line) ==
                    LET cols == SplitOn(line, ";")
                    IN [i \in 1..Len(headers) |->
                           StripQuotes(Trim(IF i <= Len(cols) THEN cols[i] ELSE <<>>))]
            IN [headers |-> headers,
                rows |-> [k \in 1..(Len(lines) - 1) |-> cells(lines[k + 1])],
                sep |-> ";"]

\* function parseCsvAuto(text): the headers and, for each data line, its cells in
\* header order (cell i belongs to headers[i])
parseCsvAuto(text) ==
    LET cleanedText == StripBom(text)
        lines == SelectSeq(SplitLines(cleanedText), LAMBDA l : Trim(l) # <<>>)
    IN IF Len(lines) < 2
       THEN [headers |-> <<>>, rows |-> <<>>, sep |-> ";"]
       ELSE LET headerLine == lines[1]
                sep == IF CountOf(headerLine, ";") >= CountOf(headerLine, ",") THEN ";" ELSE ","
                headers == MapSeq(LAMBDA h : StripQuotes(StripBom(Trim(h))),
                                  SplitOn(headerLine, sep))
                cells(line) ==
                    LET cols == SplitOn(line, sep)
                    IN [i \in 1..Len(headers) |->
                           StripQuotes(Trim(IF i <= Len(cols) THEN cols[i] ELSE <<>>))]
            IN [headers |-> headers,
                rows |-> [k \in 1..(Len(lines) - 1) |-> cells(lines[k + 1])],
                sep |-> sep]

\* function normalizeHeaderName(s)
normalizeHeaderName(s) == Trim(SelectSeq(StripBom(s), LAMBDA a : a # "NUL"))

EXPECTED_HEADERS == <<<<"Codice">>, <<"Denominazione">>, <<"CFU">>>>

\* a header check that ignores the order of the columns
headersOkAnyOrder(headers, expected) ==
    LET got == MapSeq(normalizeHeaderName, headers)
        exp == MapSeq(normalizeHeaderName, expected)
    IN Len(got) = Len(exp) /\ {got[i] : i \in 1..Len(got)} = {exp[i] : i \in 1..Len(exp)}

\* function requireExactHeaders(headers, expected): TRUE when it does not throw
headersOk(headers, expected) ==
    LET got == MapSeq(normalizeHeaderName, headers)
        exp == MapSeq(normalizeHeaderName, expected)
        sameLength == Len(got) = Len(exp)
    IN sameLength /\ \A i \in 1..Len(got) : got[i] = exp[i]

\* Array.prototype.join
RECURSIVE Join(_, _)
Join(strs, sep) ==
    IF strs = <<>> THEN <<>>
    ELSE IF Len(strs) = 1 THEN strs[1]
    ELSE strs[1] \o <<sep>> \o Join(Tail(strs), sep)

\* the two lists named by the Error of requireExactHeaders: "Atteso: ..." and "Trovato: ..."
headersError(headers, expected) ==
    [atteso |-> Join(MapSeq(normalizeHeaderName, expected), ";"),
     trovato |-> Join(MapSeq(normalizeHeaderName, headers), ";")]

\* a parseCfu that rounds up
parseCfuCeil(v) ==
    IF ~NumberIsFinite(v) THEN JNum(0)
    ELSE JNum(Max(0, IF v.k = "frac" THEN v.n + 1 ELSE v.n))

\* function parseCfu(n): 0 unless finite, else Math.max(0, Math.floor(n))
parseCfu(v) ==
    IF ~NumberIsFinite(v) THEN JNum(0) ELSE JNum(Max(0, v.n))

\* String.prototype.toLowerCase on the atoms of a file name
ToLowerAtom(a) ==
    CASE a = "CSV" -> "csv"
      [] a = "Csv" -> "csv"
      [] a = "TXT" -> "txt"
      [] OTHER -> a

\* a match on the name as it is, without name.trim()
parseCourseFromFilenameNoTrim(name) ==
    IF /\ Len(name) = 7
       /\ name[1] \in Digits /\ name[2] \in Digits
       /\ name[3] = "-"
       /\ name[4] \in Digits /\ name[5] \in Digits
       /\ name[6] = "."
       /\ ToLowerAtom(name[7]) = "csv"
    THEN {[xx |-> SubSeq(name, 1, 2), yy |-> SubSeq(name, 4, 5)]}
    ELSE {}

\* function parseCourseFromFilename(name): the match of /^(\d{2})-(\d{2})\.csv$/i on
\* name.trim(), as a set: empty for null, else the one pair {xx, yy}
parseCourseFromFilename(name) ==
    LET t == Trim(name)
    IN IF /\ Len(t) = 7
          /\ t[1] \in Digits /\ t[2] \in Digits
          /\ t[3] = "-"
          /\ t[4] \in Digits /\ t[5] \in Digits
          /\ t[6] = "."
          /\ ToLowerAtom(t[7]) = "csv"
       THEN {[xx |-> SubSeq(t, 1, 2), yy |-> SubSeq(t, 4, 5)]}
       ELSE {}

\* s.replace(",", "."): the first comma only
ReplaceFirstComma(s) ==
    LET at == {i \in 1..Len(s) : s[i] = ","}
    IN IF at = {} THEN s
       ELSE [i \in 1..Len(s) |-> IF i = (CHOOSE k \in at : \A j \in at : k <= j) THEN "." ELSE s[i]]

\* String(x ?? ""): the field of a parsed row, the empty string when the key is not set
OrEmpty(field) == IF field = {} THEN <<>> ELSE CHOOSE x \in field : TRUE

\* rows that keep a row whose cfu is 0
planRowsKeepingZero(headers, rows) ==
    LET toRow(cells) ==
            [codice |-> StripQuotes(Trim(OrEmpty(Field(headers, cells, <<"Codice">>)))),
             denominazione |-> StripQuotes(Trim(OrEmpty(Field(headers, cells, <<"Denominazione">>)))),
             cfu |-> parseCfu(Number(JStr(ReplaceFirstComma(
                         Trim(OrEmpty(Field(headers, cells, <<"CFU">>)))))))]
    IN SelectSeq(MapSeq(toRow, rows),
                 LAMBDA x : Len(x.codice) > 0 /\ Len(x.denominazione) > 0)

\* lines 652-660 of onPickPlanFile: const planRows = rows.map(...).filter(...)
planRowsOf(headers, rows) ==
    LET toRow(cells) ==
            [codice |-> StripQuotes(Trim(OrEmpty(Field(headers, cells, <<"Codice">>)))),
             denominazione |-> StripQuotes(Trim(OrEmpty(Field(headers, cells, <<"Denominazione">>)))),
             cfu |-> parseCfu(Number(JStr(ReplaceFirstComma(
                         Trim(OrEmpty(Field(headers, cells, <<"CFU">>)))))))]
    IN SelectSeq(MapSeq(toRow, rows),
                 LAMBDA x : Len(x.codice) > 0 /\ Len(x.denominazione) > 0 /\ NumGE(x.cfu, 1))

(***************************************************************************)
(* The exam tracker client: state, user actions, CSV import                *)
(***************************************************************************)
\* most ids the user's own actions (add, demo reset) may draw from makeId
MaxIds == 6

\* function demoExams(), with ids first, first + 1, first + 2
demoExams(first) ==
    <<[id |-> first, name |-> <<"Analisi", " ", "1">>, cfu |-> JNum(10), grade |-> <<"2", "8">>],
      [id |-> first + 1, name |-> <<"Fisica", " ", "1">>, cfu |-> JNum(10), grade |-> <<"2", "4">>],
      [id |-> first + 2, name |-> <<"Informatica">>, cfu |-> JNum(5), grade |-> <<>>]>>

\* no import running; result tells how the last import ended and prompt what the user
\* answered to window.confirm ("none": not asked), detail the headers that the header
\* error names; the other fields are reset
IdleImp ==
    [pc |-> "idle", name |-> <<>>, text |-> <<>>, code |-> <<>>, planRows |-> <<>>,
     get |-> 0, post |-> 0, prompt |-> "none", result |-> "none",
     detail |-> [atteso |-> <<>>, trovato |-> <<>>]]

\* the lookup modal before it is first opened; calls are the requests whose answer a
\* running doLookupPlan awaits, merges counts the merges done, report holds the
\* numbers of the last merge's status text
IdleLookup ==
    [open |-> FALSE, xx |-> <<>>, yy |-> <<>>, loading |-> FALSE, message |-> "",
     foundPlan |-> {}, selectedIdx |-> {}, calls |-> {}, merges |-> 0,
     report |-> [added |-> 0, skipped |-> 0]]

\* no CSV table yet: cells is the table of field contents, semicolon and comma are what
\* parseCsvAuto made of its two texts, planRows the rows the import made of each
NoParse == [headers |-> <<>>, rows |-> <<>>, sep |-> ";"]
NoCsv ==
    [pc |-> "none", cells |-> <<>>, semicolon |-> NoParse, comma |-> NoParse,
     planRows |-> [semicolon |-> <<>>, comma |-> <<>>]]

\* JSON.stringify(exams) as the JSON value that JSON.parse reads back from the text: an
\* array of objects; the id is the string whose one atom is the id, "" for 0; a number
\* that is not finite is written as null
JSONstringify(ex) ==
    [t |-> "array",
     items |-> [i \in 1..Len(ex) |->
                  [t |-> "object",
                   id |-> JStr(IF ex[i].id = 0 THEN <<>> ELSE <<ex[i].id>>),
                   name |-> JStr(ex[i].name),
                   cfu |-> IF NumberIsFinite(ex[i].cfu) THEN ex[i].cfu ELSE JNull,
                   grade |-> JStr(ex[i].grade)]]]

\* an effect that never writes
persistNever(st, ex) == st

\* the effect "Persist", run after every setExams: localStorage.setItem throws in a
\* browser whose storage takes no write (full: quota reached, storage disabled), and
\* the catch ignores it
persist(st, ex) ==
    IF st.full THEN st ELSE [st EXCEPT !.item = JSONstringify(ex)]

\* the client after its first start: nothing in localStorage, so the demo list, which the
\* persist effect has written
InitClient ==
    /\ storage = [item |-> JSONstringify(demoExams(1)), full |-> FALSE]
    /\ exams = demoExams(1)
    /\ whatIfExamId = 1
    /\ status = ""
    /\ statusTimer = FALSE
    /\ course = [xx |-> <<>>, yy |-> <<>>]
    /\ imp = IdleImp
    /\ nextId = 4
    /\ whatIfGrade = <<"2", "8">>
    /\ lookup = IdleLookup
    /\ csv = NoCsv

\* an effect that leaves the selected id as it is
realignNever(ex, id) == id

\* the effect "What-if: se l'id selezionato non esiste piu', riallinea", run after
\* every change of exams or whatIfExamId; 0 stands for the empty id ""
realign(ex, id) ==
    IF id # 0 /\ \E i \in 1..Len(ex) : ex[i].id = id
    THEN id
    ELSE IF Len(ex) > 0 THEN ex[1].id ELSE 0

\* function addExam()
AddExam ==
    /\ nextId <= MaxIds
    /\ exams' = Append(exams, [id |-> nextId, name |-> <<"Nuovo", " ", "esame">>,
                               cfu |-> JNum(6), grade |-> <<>>])
    /\ whatIfExamId' = realign(exams', IF whatIfExamId = 0 THEN nextId ELSE whatIfExamId)
    /\ storage' = persist(storage, exams')
    /\ nextId' = nextId + 1
    /\ UNCHANGED <<status, statusTimer, course, imp>>
    /\ UNCHANGED serverVars
    /\ UNCHANGED viewVars

\* function removeExam(id)
RemoveExam ==
    /\ \E i \in 1..Len(exams) :
         exams' = SelectSeq(exams, LAMBDA e : e.id # exams[i].id)
    /\ whatIfExamId' = realign(exams', whatIfExamId)
    /\ storage' = persist(storage, exams')
    /\ UNCHANGED <<status, statusTimer, course, imp, nextId>>
    /\ UNCHANGED serverVars
    /\ UNCHANGED viewVars

\* function onResetDemo()
ResetDemo ==
    /\ nextId + 2 <= MaxIds
    /\ exams' = demoExams(nextId)
    /\ nextId' = nextId + 3
    /\ status' = "Demo ripristinata."
    /\ whatIfExamId' = realign(exams', whatIfExamId)
    /\ storage' = persist(storage, exams')
    /\ UNCHANGED <<statusTimer, course, imp>>
    /\ UNCHANGED serverVars
    /\ UNCHANGED viewVars

\* function onClearAll()
ClearAll ==
    /\ exams' = <<>>
    /\ status' = "Lista svuotata."
    /\ whatIfExamId' = realign(exams', whatIfExamId)
    /\ storage' = persist(storage, exams')
    /\ UNCHANGED <<statusTimer, course, imp, nextId>>
    /\ UNCHANGED serverVars
    /\ UNCHANGED viewVars

\* the timer set by flashStatus fires
StatusTimerFires ==
    /\ statusTimer
    /\ status' = ""
    /\ statusTimer' = FALSE
    /\ UNCHANGED <<storage, exams, whatIfExamId, course, imp, nextId>>
    /\ UNCHANGED serverVars
    /\ UNCHANGED viewVars

\* lines 666-671: const next = planRows.map((p) => ({ id: makeId(), name, cfu, grade: "" }))
toExams(planRows, first) ==
    [i \in 1..Len(planRows) |->
        [id |-> first + i - 1, name |-> planRows[i].denominazione,
         cfu |-> planRows[i].cfu, grade |-> <<>>]]

\* an import that replaces the list before it has checked that a row survived
parsePlanEager(text, ex, first) ==
    LET parsed == parseCsvAuto(text)
        rows == planRowsOf(parsed.headers, parsed.rows)
    IN IF ~headersOk(parsed.headers, EXPECTED_HEADERS)
       THEN [result |-> "header", planRows |-> <<>>, exams |-> ex]
       ELSE IF Len(rows) = 0
            THEN [result |-> "norows", planRows |-> <<>>, exams |-> toExams(rows, first)]
            ELSE [result |-> "ok", planRows |-> rows, exams |-> toExams(rows, first)]

\* lines 647-673 of onPickPlanFile: parse, check the headers, normalize the rows,
\* and only then build the list that replaces the exams (ex is the list so far);
\* the parse and the rows are each evaluated once, as the members of a singleton
parsePlan(text, ex, first) ==
    LET fromRows(rows) ==
            IF Len(rows) = 0
            THEN [result |-> "norows", planRows |-> <<>>, exams |-> ex]
            ELSE [result |-> "ok", planRows |-> rows, exams |-> toExams(rows, first)]
        fromParsed(parsed) ==
            IF ~headersOk(parsed.headers, EXPECTED_HEADERS)
            THEN [result |-> "header", planRows |-> <<>>, exams |-> ex]
            ELSE CHOOSE res \in {fromRows(rows) :
                                    rows \in {planRowsOf(parsed.headers, parsed.rows)}} : TRUE
    IN CHOOSE res \in {fromParsed(parsed) : parsed \in {parseCsvAuto(text)}} : TRUE

\* the body {code, rows} of apiSavePlan(code, planRows)
SaveBody(planRows) ==
    JArr([i \in 1..Len(planRows) |->
             JObj(JStr(planRows[i].codice), JStr(planRows[i].denominazione), planRows[i].cfu)])

\* the request slots nobody has used yet; a request takes the lowest one
IdleSlots == {r \in Req : reqs[r].pc = "idle"}
FreeSlot == CHOOSE r \in IdleSlots : \A q \in IdleSlots : r <= q

\* a client that sends its GET again at once
apiGetPlanTwice(code) ==
    [r \in Req |-> IF r \in IdleSlots /\ r <= FreeSlot + 1
                   THEN getStart(reqs[r], Done, code)
                   ELSE reqs[r]]

\* function apiGetPlan(code): one fetch of GET /api/plans/<code>; the requests after it
apiGetPlan(code) ==
    [reqs EXCEPT ![FreeSlot] = getStart(reqs[FreeSlot], Done, code)]

\* function apiSavePlan(code, rows): one fetch of POST /api/plans with the body
\* {code, rows}; the requests after it
apiSavePlan(code, planRows) ==
    [reqs EXCEPT ![FreeSlot] = postStart(reqs[FreeSlot], Done, JStr(code), SaveBody(planRows))]

\* handleCsvUpload and onPickPlanFile up to `await readFileTextUtf8OrUtf16(file)`:
\* the user picks a file; a bad name ends the import with the error status
PickFile(Names, Texts) ==
    /\ imp.pc = "idle"
    /\ Cardinality(IdleSlots) >= 2
    /\ \E name \in Names, text \in Texts :
         LET parsed == parseCourseFromFilename(name)
         IN IF parsed = {}
            THEN /\ status' = "Errore: Nome file non valido."
                 /\ imp' = [IdleImp EXCEPT !.result = "filename", !.name = name]
                 /\ UNCHANGED course
            ELSE \E c \in parsed :
                 /\ status' = "Caricamento piano"
                 /\ course' = [xx |-> c.xx, yy |-> c.yy]
                 /\ imp' = [IdleImp EXCEPT !.pc = "reading", !.name = name, !.text = text,
                                           !.code = c.xx \o <<"-">> \o c.yy]
    /\ UNCHANGED <<storage, exams, whatIfExamId, statusTimer, nextId>>
    /\ UNCHANGED serverVars
    /\ UNCHANGED viewVars

\* onPickPlanFile from the text of the file to `await apiGetPlan(code)`: text holds
\* what readFileTextUtf8OrUtf16 decoded
FileRead ==
    /\ imp.pc = "reading"
    /\ \E p \in {parsePlan(imp.text, exams, nextId)} :
          IF p.result # "ok"
          THEN /\ status' = IF p.result = "header"
                            THEN "Errore: Header CSV non valido."
                            ELSE "Errore: CSV valido ma nessuna riga utile."
               /\ imp' = [IdleImp EXCEPT !.result = p.result,
                                          !.detail = IF p.result = "header"
                                                     THEN headersError(parseCsvAuto(imp.text).headers,
                                                                       EXPECTED_HEADERS)
                                                     ELSE @]
               /\ exams' = p.exams
               /\ UNCHANGED <<nextId, reqs>>
          ELSE /\ exams' = p.exams
               /\ nextId' = nextId + Len(p.planRows)
               /\ status' = "Verifico il piano"
               /\ reqs' = apiGetPlan(imp.code)
               /\ imp' = [imp EXCEPT !.pc = "checking", !.planRows = p.planRows,
                                     !.get = FreeSlot]
    /\ whatIfExamId' = realign(exams', whatIfExamId)
    /\ storage' = IF imp'.pc = "checking" THEN persist(storage, exams') ELSE storage
    /\ UNCHANGED <<statusTimer, course, table, clock>>
    /\ UNCHANGED viewVars

\* an import that saves whatever the check answered and whatever the user said
checkDecisionAlwaysSave(checkRes, yes) == "save"

\* lines 678-687: what the import does with the answer of the GET; yes is the user's
\* answer to window.confirm, asked only when checkRes.ok
checkDecision(checkRes, yes) ==
    IF checkRes.status = 200
    THEN IF yes THEN "save" ELSE "declined"
    ELSE IF checkRes.status # 404 THEN "check" ELSE "save"

\* onPickPlanFile from the answer of the GET to `await apiSavePlan(code, planRows)`
CheckAnswered ==
    /\ imp.pc = "checking"
    /\ reqs[imp.get].pc = "done"
    /\ \E yes \in BOOLEAN :
         LET checkRes == reqs[imp.get]
             ok == checkRes.status = 200
             decision == checkDecision(checkRes, yes)
         IN IF decision = "declined"
            THEN /\ status' = "Piano caricato in UI, ma NON salvato(annullato)."
                 /\ imp' = [IdleImp EXCEPT !.result = "declined", !.prompt = "no"]
                 /\ UNCHANGED reqs
            ELSE IF decision = "check"
                 THEN /\ status' = "Errore: Errore verifica"
                      /\ imp' = [IdleImp EXCEPT !.result = "check"]
                      /\ UNCHANGED reqs
                 ELSE /\ status' = "Salvataggio"
                      /\ reqs' = apiSavePlan(imp.code, imp.planRows)
                      /\ imp' = [imp EXCEPT !.pc = "saving", !.post = FreeSlot,
                                            !.prompt = IF ok THEN "yes" ELSE "none"]
    /\ UNCHANGED <<storage, exams, whatIfExamId, statusTimer, course, nextId, table, clock>>
    /\ UNCHANGED viewVars

\* a client that takes every answer of the POST for a success
saveFailedNever(saveRes) == FALSE

\* line 692: !saveRes.ok || !json?.ok
saveFailed(saveRes) == saveRes.status # 200 \/ saveRes.ok # "true"

\* an import that takes the list back when its save has failed
saveAnsweredRollingBack ==
    /\ imp.pc = "saving"
    /\ reqs[imp.post].pc = "done"
    /\ status' = IF saveFailed(reqs[imp.post]) THEN "Errore: Errore salvataggio API"
                 ELSE "Piano salvato."
    /\ imp' = [IdleImp EXCEPT !.result = IF saveFailed(reqs[imp.post]) THEN "save" ELSE "saved"]
    /\ exams' = IF saveFailed(reqs[imp.post]) THEN <<>> ELSE exams
    /\ whatIfExamId' = realign(exams', whatIfExamId)
    /\ storage' = persist(storage, exams')
    /\ statusTimer' = ~saveFailed(reqs[imp.post])
    /\ UNCHANGED <<course, nextId>>
    /\ UNCHANGED serverVars
    /\ UNCHANGED viewVars

\* onPickPlanFile from the answer of the POST to its end
SaveAnswered ==
    /\ imp.pc = "saving"
    /\ reqs[imp.post].pc = "done"
    /\ LET saveRes == reqs[imp.post]
       IN IF saveFailed(saveRes)
          THEN /\ status' = "Errore: Errore salvataggio API"
               /\ imp' = [IdleImp EXCEPT !.result = "save"]
               /\ UNCHANGED statusTimer
          ELSE /\ status' = "Piano salvato."
               /\ statusTimer' = TRUE
               /\ imp' = [IdleImp EXCEPT !.result = "saved"]
    /\ UNCHANGED <<storage, exams, whatIfExamId, course, nextId>>
    /\ UNCHANGED serverVars
    /\ UNCHANGED viewVars

\* fetch rejects (no connection, answer lost): the await throws into handleCsvUpload's catch
FetchFails ==
    /\ imp.pc \in {"checking", "saving"}
    /\ status' = "Errore: Failed to fetch"
    /\ imp' = [IdleImp EXCEPT !.result = "network"]
    /\ UNCHANGED <<storage, exams, whatIfExamId, statusTimer, course, nextId>>
    /\ UNCHANGED serverVars
    /\ UNCHANGED viewVars

(***************************************************************************)
(* The lookup modal: search a stored plan, select rows, merge them         *)
(***************************************************************************)
\* most merges of a fetched plan in one run
MaxMerges == 2

\* function parseCoursePart(s), as a set: empty for null, else the one number
parseCoursePart(str) ==
    LET t == Trim(str)
    IN IF Len(t) = 2 /\ t[1] \in Digits /\ t[2] \in Digits
       THEN {DigitsValue(t)}
       ELSE {}

\* function format2(n): String(n).padStart(2, "0")
format2(n) ==
    IF n < 10 THEN <<"0", ToString(n)>>
    ELSE IF n < 100 THEN <<ToString(n \div 10), ToString(n % 10)>>
    ELSE <<ToString(n)>>

\* lines 565-568: lookupOk and lookupCode
lookupOk(xx, yy) == parseCoursePart(xx) # {} /\ parseCoursePart(yy) # {}
lookupCode(xx, yy) ==
    IF lookupOk(xx, yy)
    THEN format2(CHOOSE n \in parseCoursePart(xx) : TRUE) \o <<"-">>
         \o format2(CHOOSE n \in parseCoursePart(yy) : TRUE)
    ELSE <<>>

\* String.prototype.toLowerCase on the atoms of a title
ToLowerTitle(a) ==
    CASE a \in {"Analisi", "ANALISI"} -> "analisi"
      [] a \in {"Chimica", "CHIMICA"} -> "chimica"
      [] a = "Fisica" -> "fisica"
      [] a = "Informatica" -> "informatica"
      [] a = "Nuovo" -> "nuovo"
      [] OTHER -> a

\* s.replace(/\s+/g, " "): every run of whitespace becomes one blank
RECURSIVE CollapseSpaces(_)
CollapseSpaces(str) ==
    IF str = <<>> THEN <<>>
    ELSE IF Head(str) \in WhiteSpace
         THEN <<" ">> \o CollapseSpaces(TrimStart(str))
         ELSE <<Head(str)>> \o CollapseSpaces(Tail(str))

\* a key that forgets the cfu
normKeyNameOnly(name, cfu) ==
    CollapseSpaces(MapSeq(ToLowerTitle, Trim(name))) \o <<"|">>

\* function normKey(name, cfu): the string `${normalized name}|${cfu}`
normKey(name, cfu) ==
    CollapseSpaces(MapSeq(ToLowerTitle, Trim(name))) \o <<"|", ToString(cfu.n)>>

\* the loop of addSelectedFromFound over the selected rows: the exams to add
RECURSIVE mergeLoop(_, _, _, _)
mergeLoop(selected, existing, toAdd, first) ==
    IF selected = <<>> THEN toAdd
    ELSE LET r == Head(selected)
             key == normKey(r.denominazione, r.cfu)
         IN IF key \in existing
            THEN mergeLoop(Tail(selected), existing, toAdd, first)
            ELSE mergeLoop(Tail(selected), existing \cup {key},
                           Append(toAdd, [id |-> first + Len(toAdd), name |-> r.denominazione,
                                          cfu |-> r.cfu, grade |-> <<>>]),
                           first)

\* a loop that starts without the keys of the list
toAddOfForgettingList(prev, selected, first) ==
    mergeLoop(selected, {}, <<>>, first)

\* lines 819-827: toAdd for the list prev and the selected rows
toAddOf(prev, selected, first) ==
    mergeLoop(selected, {normKey(prev[i].name, prev[i].cfu) : i \in 1..Len(prev)}, <<>>, first)

\* plan.rows.filter((_, i) => selectedIdx.has(i)); indices count from 1 here
selectedRows(rows, selectedIdx) ==
    LET RECURSIVE pick(_)
        pick(i) == IF i > Len(rows) THEN <<>>
                   ELSE (IF i \in selectedIdx THEN <<rows[i]>> ELSE <<>>) \o pick(i + 1)
    IN pick(1)

\* the rows of the plan found, and none when no plan was found
foundRows == IF lookup.foundPlan = {} THEN <<>> ELSE (CHOOSE d \in lookup.foundPlan : TRUE).rows

\* an openLookup that keeps the plan and the selection of the last search
openLookupKeeping ==
    /\ ~lookup.open
    /\ lookup' = [lookup EXCEPT !.open = TRUE, !.message = ""]
    /\ UNCHANGED <<storage, exams, whatIfExamId, status, statusTimer, course, imp, nextId, whatIfGrade, csv>>
    /\ UNCHANGED serverVars

\* function openLookup()
OpenLookup ==
    /\ ~lookup.open
    /\ lookup' = [lookup EXCEPT !.open = TRUE, !.message = "", !.foundPlan = {},
                                !.selectedIdx = {}]
    /\ UNCHANGED <<storage, exams, whatIfExamId, status, statusTimer, course, imp, nextId, whatIfGrade, csv>>
    /\ UNCHANGED serverVars

\* function closeLookup(): the Chiudi button, or a click on the backdrop, which works
\* while a search is running too
CloseLookup ==
    /\ lookup.open
    /\ lookup' = [lookup EXCEPT !.open = FALSE, !.loading = FALSE]
    /\ UNCHANGED <<storage, exams, whatIfExamId, status, statusTimer, course, imp, nextId, whatIfGrade, csv>>
    /\ UNCHANGED serverVars

\* the user types into the XX and YY boxes (disabled while a search is running); the
\* onChange handlers keep at most two digits
SetLookupCode(Codes) ==
    /\ lookup.open /\ ~lookup.loading
    /\ \E c \in Codes :
         /\ c # <<lookup.xx, lookup.yy>>
         /\ lookup' = [lookup EXCEPT !.xx = c[1], !.yy = c[2]]
    /\ UNCHANGED <<storage, exams, whatIfExamId, status, statusTimer, course, imp, nextId, whatIfGrade, csv>>
    /\ UNCHANGED serverVars

\* function doLookupPlan() up to `await apiGetPlan(lookupCode)` (the button is
\* disabled while a search is running)
DoLookup ==
    /\ lookup.open /\ ~lookup.loading
    /\ IF ~lookupOk(lookup.xx, lookup.yy)
       THEN /\ lookup' = [lookup EXCEPT !.message = "Inserisci un codice valido"]
            /\ UNCHANGED reqs
       ELSE /\ IdleSlots # {}
            /\ reqs' = apiGetPlan(lookupCode(lookup.xx, lookup.yy))
            /\ lookup' = [lookup EXCEPT !.loading = TRUE, !.message = "Ricerca piano",
                                        !.foundPlan = {}, !.selectedIdx = {},
                                        !.calls = @ \cup {FreeSlot}]
    /\ UNCHANGED <<storage, exams, whatIfExamId, status, statusTimer, course, imp, nextId, whatIfGrade, csv>>
    /\ UNCHANGED <<table, clock>>

\* a search that shows whatever the server answered as a plan
lookupResultAny(res) ==
    [message |-> "Piano trovato", foundPlan |-> res.data,
     selectedIdx |-> IF res.data = {} THEN {}
                     ELSE 1..Len((CHOOSE d \in res.data : TRUE).rows)]

\* lines 775-798 of doLookupPlan: what the modal shows for the answer res
lookupResult(res) ==
    IF res.status = 404
    THEN [message |-> "Questo piano non e' ancora stato caricato", foundPlan |-> {},
          selectedIdx |-> {}]
    ELSE IF res.status # 200
         THEN [message |-> "Errore server", foundPlan |-> {}, selectedIdx |-> {}]
         ELSE IF res.data = {}
              THEN [message |-> "Risposta non valida dal server.", foundPlan |-> {},
                    selectedIdx |-> {}]
              ELSE [message |-> "Piano trovato", foundPlan |-> res.data,
                    selectedIdx |-> 1..Len((CHOOSE d \in res.data : TRUE).rows)]

\* doLookupPlan from the answer of its GET to its end
LookupAnswered ==
    /\ \E r \in lookup.calls :
         /\ reqs[r].pc = "done"
         /\ \E shown \in {lookupResult(reqs[r])} :
              lookup' = [lookup EXCEPT !.loading = FALSE, !.calls = @ \ {r},
                                       !.message = shown.message,
                                       !.foundPlan = IF shown.foundPlan = {} THEN @
                                                     ELSE shown.foundPlan,
                                       !.selectedIdx = IF shown.foundPlan = {} THEN @
                                                       ELSE shown.selectedIdx]
    /\ UNCHANGED <<storage, exams, whatIfExamId, status, statusTimer, course, imp, nextId, whatIfGrade, csv>>
    /\ UNCHANGED serverVars

\* fetch rejects: doLookupPlan's catch and finally
LookupFetchFails ==
    /\ \E r \in lookup.calls :
         lookup' = [lookup EXCEPT !.loading = FALSE, !.calls = @ \ {r},
                                  !.message = "Errore: Failed to fetch"]
    /\ UNCHANGED <<storage, exams, whatIfExamId, status, statusTimer, course, imp, nextId, whatIfGrade, csv>>
    /\ UNCHANGED serverVars

\* function toggleIdx(i), on a row of the plan shown
ToggleIdx ==
    /\ lookup.open
    /\ \E i \in 1..Len(foundRows) :
         lookup' = [lookup EXCEPT !.selectedIdx = IF i \in @ THEN @ \ {i} ELSE @ \cup {i}]
    /\ UNCHANGED <<storage, exams, whatIfExamId, status, statusTimer, course, imp, nextId, whatIfGrade, csv>>
    /\ UNCHANGED serverVars

\* function selectAllFound()
SelectAllFound ==
    /\ lookup.open /\ lookup.foundPlan # {}
    /\ lookup' = [lookup EXCEPT !.selectedIdx = 1..Len(foundRows)]
    /\ UNCHANGED <<storage, exams, whatIfExamId, status, statusTimer, course, imp, nextId, whatIfGrade, csv>>
    /\ UNCHANGED serverVars

\* function selectNoneFound()
SelectNoneFound ==
    /\ lookup.open /\ lookup.foundPlan # {}
    /\ lookup' = [lookup EXCEPT !.selectedIdx = {}]
    /\ UNCHANGED <<storage, exams, whatIfExamId, status, statusTimer, course, imp, nextId, whatIfGrade, csv>>
    /\ UNCHANGED serverVars

\* function addSelectedFromFound()
AddSelectedFromFound ==
    /\ lookup.open /\ lookup.foundPlan # {}
    /\ lookup.merges < MaxMerges
    /\ LET selected == selectedRows(foundRows, lookup.selectedIdx)
           toAdd == toAddOf(exams, selected, nextId)
           skipped == Len(selected) - Len(toAdd)
       IN IF Len(selected) = 0
          THEN /\ lookup' = [lookup EXCEPT !.message = "Nessun esame selezionato."]
               /\ UNCHANGED <<storage, exams, whatIfExamId, status, nextId>>
          ELSE /\ lookup' = [lookup EXCEPT !.open = FALSE, !.loading = FALSE,
                                           !.merges = @ + 1,
                                           !.report = [added |-> Len(toAdd), skipped |-> skipped]]
               /\ exams' = exams \o toAdd
               /\ nextId' = nextId + Len(toAdd)
               /\ whatIfExamId' = realign(exams', whatIfExamId)
               /\ storage' = persist(storage, exams')
               /\ status' = IF skipped > 0 THEN "Aggiunti esami dal piano (saltati duplicati)."
                            ELSE "Aggiunti esami dal piano."
    /\ UNCHANGED <<statusTimer, course, imp, whatIfGrade, csv>>
    /\ UNCHANGED serverVars

(***************************************************************************)
(* Files the user may pick                                                 *)
(***************************************************************************)
\* the concatenation of the strings of a sequence, each followed by `eol`
RECURSIVE Lines(_, _)
Lines(ls, eol) == IF ls = <<>> THEN <<>> ELSE Head(ls) \o eol \o Lines(Tail(ls), eol)

\* three cells joined by a separator
Cells(a, b, c, sep) == a \o <<sep>> \o b \o <<sep>> \o c

HeaderLine(sep) == Cells(<<"Codice">>, <<"Denominazione">>, <<"CFU">>, sep)
LF == <<"\n">>
CRLF == <<"\r", "\n">>

\* two good rows; the second has quotes, blanks and a decimal comma
TextGood ==
    Lines(<<HeaderLine(";"),
            Cells(<<"X1">>, <<"Algebra">>, <<"6">>, ";"),
            Cells(<<"X2">>, <<" ", "\"", "Fisica", " ", "1", "\"">>, <<"3", "0", ",", "5">>, ";")>>, LF)
\* comma separated, with a byte-order mark, CRLF and a blank line
TextComma ==
    <<"BOM">> \o Lines(<<HeaderLine(","), <<>>,
                         Cells(<<"X1">>, <<"Algebra">>, <<"6">>, ",")>>, CRLF)
\* a good row, a row with cfu above 30, and rows that normalization drops
TextMixed ==
    Lines(<<HeaderLine(";"),
            Cells(<<"X3">>, <<"Chimica">>, <<"4", "5">>, ";"),
            Cells(<<"X5">>, <<"Storia">>, <<"0">>, ";"),
            Cells(<<>>, <<"Diritto">>, <<"6">>, ";"),
            Cells(<<"X4">>, <<"Logica">>, <<"9", ".", "9">>, ";")>>, LF)
\* wrong case, wrong order, an extra column, a missing column
TextCase == Lines(<<Cells(<<"Codice">>, <<"Denominazione">>, <<"Cfu">>, ";"),
                    Cells(<<"X1">>, <<"Algebra">>, <<"6">>, ";")>>, LF)
TextOrder == Lines(<<Cells(<<"Denominazione">>, <<"Codice">>, <<"CFU">>, ";"),
                     Cells(<<"Algebra">>, <<"X1">>, <<"6">>, ";")>>, LF)
TextExtra == Lines(<<HeaderLine(";") \o <<";", "Anno">>,
                     Cells(<<"X1">>, <<"Algebra">>, <<"6">>, ";") \o <<";", "1">>>>, LF)
TextMissing == Lines(<<<<"Codice", ";", "Denominazione">>, <<"X1", ";", "Algebra">>>>, LF)
\* the header only, nothing at all
TextHeaderOnly == Lines(<<HeaderLine(";")>>, LF)
TextEmpty == <<>>
\* good headers, no row survives
TextNoRows ==
    Lines(<<HeaderLine(";"),
            Cells(<<"X5">>, <<"Storia">>, <<"0">>, ";"),
            Cells(<<"X6">>, <<" ">>, <<"6">>, ";"),
            Cells(<<"X7">>, <<"Ottica">>, <<"abc">>, ";"),
            Cells(<<"X8">>, <<"Etica">>, <<"-", "3">>, ";")>>, LF)
\* every row has a cfu above 30: the client keeps the rows, the server's cleaning drops them
TextOver ==
    Lines(<<HeaderLine(";"),
            Cells(<<"X3">>, <<"Chimica">>, <<"4", "5">>, ";")>>, LF)
\* a NUL in a header name: the name passes the header check, the rows lose the column
TextNul ==
    Lines(<<Cells(<<"NUL", "Codice">>, <<"Denominazione">>, <<"CFU">>, ";"),
            Cells(<<"X1">>, <<"Algebra">>, <<"6">>, ";")>>, LF)

FileTexts ==
    {TextGood, TextComma, TextMixed, TextCase, TextOrder, TextExtra, TextMissing,
     TextHeaderOnly, TextEmpty, TextNoRows, TextOver, TextNul}

\* "07-89.csv", " 07-89.CSV ", "12-34.csv", "7-89.csv", "07-89.txt", "07-89"
FileNames ==
    {CodeA \o <<".", "csv">>,
     <<" ">> \o CodeA \o <<".", "CSV", " ">>,
     CodeB \o <<".", "csv">>,
     ShortCode \o <<".", "csv">>,
     CodeA \o <<".", "txt">>,
     CodeA}

(***************************************************************************)
(* Specifications                                                          *)
(***************************************************************************)
Init ==
    /\ table = {}
    /\ clock = 0
    /\ reqs = [r \in Req |-> IdleReq]
    /\ InitClient

Next ==
    \E r \in Req :
        \/ StartGet(r, GetParams)
        \/ GetSelect(r)
        \/ StartPost(r, PostCodes, PostRows)
        \/ PostCheck(r)
        \/ PostInsert(r)

\* any number of clients sending GET and POST requests that the server handles concurrently
Spec == Init /\ [][Next]_vars

\* one request with inputs of every shape, on an empty store or on one that holds a plan
InitInputs ==
    /\ table \in {{}, {SeedDoc}}
    /\ clock = 0
    /\ reqs = [r \in Req |-> IdleReq]
    /\ InitClient

NextInputs ==
    \/ StartGet(1, RichParams)
    \/ GetSelect(1)
    \/ StartPost(1, RichCodes, RichRows)
    \/ PostCheck(1)
    \/ PostInsert(1)

SpecInputs == InitInputs /\ [][NextInputs]_vars

\* the client: the user edits the list and imports CSV files while the server answers
\* the requests of the import; the store is empty or holds a plan
NextClient ==
    \/ AddExam
    \/ RemoveExam
    \/ ResetDemo
    \/ ClearAll
    \/ StatusTimerFires
    \/ PickFile(FileNames, FileTexts)
    \/ FileRead
    \/ CheckAnswered
    \/ SaveAnswered
    \/ FetchFails
    \/ \E r \in Req : GetSelect(r) \/ PostCheck(r) \/ PostInsert(r)

SpecClient == InitInputs /\ [][NextClient]_vars

\* a plan stored under CodeB: a title the demo list has (in capitals, with two
\* blanks), the same title with another cfu, and that row again with blanks around
\* the title
LookupDoc ==
    [code |-> CodeB,
     rows |-> <<[codice |-> <<"L1">>, denominazione |-> <<"ANALISI", " ", " ", "1">>, cfu |-> JNum(10)],
                [codice |-> <<"L2">>, denominazione |-> <<"Analisi", " ", "1">>, cfu |-> JNum(9)],
                [codice |-> <<"L3">>, denominazione |-> <<" ", "analisi", " ", "1", " ">>, cfu |-> JNum(9)]>>,
     updated_at |-> 0]

\* what the user may type into the two boxes of the lookup code: 7 and 89 (no code),
\* 12 and 34 (the code of LookupDoc), 07 and 34 (a code nobody stored)
LookupCodes ==
    {<<<<"7">>, <<"8", "9">>>>, <<<<"1", "2">>, <<"3", "4">>>>, <<<<"0", "7">>, <<"3", "4">>>>}

\* the codes typed by a user who merges plans: no code, and the code of LookupDoc
MergeCodes == {<<<<"7">>, <<"8", "9">>>>, <<<<"1", "2">>, <<"3", "4">>>>}

InitLookup ==
    /\ table = {SeedDoc, LookupDoc}
    /\ clock = 0
    /\ reqs = [r \in Req |-> IdleReq]
    /\ InitClient

\* the client: the user searches stored plans, selects rows and merges them into the
\* list, while the server answers the searches
NextLookup ==
    \/ OpenLookup
    \/ CloseLookup
    \/ SetLookupCode(MergeCodes)
    \/ DoLookup
    \/ LookupAnswered
    \/ LookupFetchFails
    \/ ToggleIdx
    \/ SelectAllFound
    \/ SelectNoneFound
    \/ AddSelectedFromFound
    \/ \E r \in Req : GetSelect(r)

SpecLookup == InitLookup /\ [][NextLookup]_vars

\* files for the requests of an import: 07-89.csv (stored) and 07-34.csv (not stored),
\* with a good text
RequestNames == {CodeA \o <<".", "csv">>, <<"0", "7", "-", "3", "4", ".", "csv">>}
RequestTexts == {TextGood}

\* the request slots an import under way still needs
SlotsOfImport == CASE imp.pc = "reading" -> 2 [] imp.pc = "checking" -> 1 [] OTHER -> 0

\* the user clicks the search button while a request slot is left for the search
StartLookup ==
    /\ Cardinality(IdleSlots) > SlotsOfImport
    /\ DoLookup

\* the client's requests: the user imports files and searches stored plans, the server
\* answers; a search starts only while a slot is left for it
NextRequests ==
    \/ PickFile(RequestNames, RequestTexts)
    \/ FileRead
    \/ CheckAnswered
    \/ SaveAnswered
    \/ FetchFails
    \/ OpenLookup
    \/ CloseLookup
    \/ SetLookupCode(LookupCodes)
    \/ StartLookup
    \/ LookupAnswered
    \/ LookupFetchFails
    \/ \E r \in Req : GetSelect(r) \/ PostCheck(r) \/ PostInsert(r)

SpecRequests == InitLookup /\ [][NextRequests]_vars

(***************************************************************************)
(* The averages shown and the edits of the exam table                      *)
(***************************************************************************)
\* 10 to the power k
RECURSIVE Pow10(_)
Pow10(k) == IF k = 0 THEN 1 ELSE 10 * Pow10(k - 1)

\* the exact value num/den of a literal [sign] digits [. digits] that StringToNumber
\* takes for a finite number
DecimalValue(t) ==
    LET signed == t[1] \in {"-", "+"}
        body == IF signed THEN Tail(t) ELSE t
        dot == {i \in 1..Len(body) : body[i] = "."}
        whole == IF dot = {} THEN body ELSE SubSeq(body, 1, (CHOOSE i \in dot : TRUE) - 1)
        decimals == IF dot = {} THEN <<>>
                    ELSE SubSeq(body, (CHOOSE i \in dot : TRUE) + 1, Len(body))
        digits == DigitsValue(whole \o decimals)
    IN [num |-> IF t[1] = "-" THEN 0 - digits ELSE digits, den |-> Pow10(Len(decimals))]

\* a parseGrade without the test of the range
parseGradeAnyRange(s) ==
    LET t == Trim(s)
    IN IF t = <<>> THEN {}
       ELSE IF ~NumberIsFinite(StringToNumber(t)) THEN {}
       ELSE {DecimalValue(t)}

\* function parseGrade(s), as a set: empty for null, else the one number, as num/den
parseGrade(s) ==
    LET t == Trim(s)
    IN IF t = <<>> THEN {}
       ELSE LET n == StringToNumber(t)
            IN IF ~NumberIsFinite(n) THEN {}
               ELSE IF ~NumGE(n, 0) \/ ~NumLE(n, 30) THEN {}
               ELSE {DecimalValue(t)}

\* a/b + c/d, for b and d powers of 10, and a/b * k
RatAdd(x, y) ==
    LET d == Max(x.den, y.den)
    IN [num |-> x.num * (d \div x.den) + y.num * (d \div y.den), den |-> d]
RatTimes(x, k) == [num |-> x.num * k, den |-> x.den]
\* a/b = c/d
RatEq(x, y) == x.num * y.den = y.num * x.den

\* the loop of weightedAverage: sum and total after the exams es. The cfu of an exam
\* is an integer: parseCfu, addExam's 6 and the rows of a stored plan give nothing else.
RECURSIVE averageLoop(_, _, _)
averageLoop(es, sum, total) ==
    IF es = <<>> THEN [sum |-> sum, total |-> total]
    ELSE LET e == Head(es)
             g == parseGrade(e.grade)
         IN IF g = {} THEN averageLoop(Tail(es), sum, total)
            ELSE IF NumLE(e.cfu, 0) THEN averageLoop(Tail(es), sum, total)
            ELSE averageLoop(Tail(es),
                             RatAdd(sum, RatTimes(CHOOSE v \in g : TRUE, e.cfu.n)),
                             total + e.cfu.n)

\* an average in which an exam without a grade counts as a grade of 0
weightedAverageBlankAsZero(es) ==
    LET r == averageLoop([i \in 1..Len(es) |->
                             IF parseGrade(es[i].grade) = {}
                             THEN [es[i] EXCEPT !.grade = <<"0">>] ELSE es[i]],
                         [num |-> 0, den |-> 1], 0)
    IN IF r.total = 0 THEN {}
       ELSE {[num |-> r.sum.num, den |-> r.sum.den * r.total]}

\* function weightedAverage(exams), as a set: empty for null, else the quotient
\* sum / total as the fraction num/den (the code returns the double nearest to it)
weightedAverage(es) ==
    LET r == averageLoop(es, [num |-> 0, den |-> 1], 0)
    IN IF r.total = 0 THEN {}
       ELSE {[num |-> r.sum.num, den |-> r.sum.den * r.total]}

\* the digits of a natural number
RECURSIVE NatToString(_)
NatToString(n) ==
    IF n < 10 THEN <<ToString(n)>> ELSE NatToString(n \div 10) \o <<ToString(n % 10)>>

\* num/den without trailing zeros among its decimals
RECURSIVE Lowest(_)
Lowest(v) ==
    IF v.den > 1 /\ v.num % 10 = 0
    THEN Lowest([num |-> v.num \div 10, den |-> v.den \div 10])
    ELSE v

\* the decimals of n/den, as many digits as den has zeros
RECURSIVE FracDigits(_, _)
FracDigits(n, den) ==
    IF den = 1 THEN <<>> ELSE FracDigits(n \div 10, den \div 10) \o <<ToString(n % 10)>>

\* String(g) of a grade g >= 0: its shortest decimal literal
NumberToString(v) ==
    LET w == Lowest(v)
    IN IF w.den = 1 THEN NatToString(w.num)
       ELSE NatToString(w.num \div w.den) \o <<".">> \o FracDigits(w.num % w.den, w.den)

\* line 575: exams.map((e) => (e.id === whatIfExamId ? { ...e, grade: String(g) } : e))
simulated(es, id, g) ==
    [i \in 1..Len(es) |->
        IF es[i].id = id THEN [es[i] EXCEPT !.grade = NumberToString(g)] ELSE es[i]]

\* a simulation that puts the hypothetical grade on every exam
whatIfAvgEveryExam(es, id, text) ==
    LET g == parseGrade(text)
    IN IF g = {} THEN weightedAverage(es)
       ELSE weightedAverage([i \in 1..Len(es) |->
                [es[i] EXCEPT !.grade = NumberToString(CHOOSE v \in g : TRUE)]])

\* lines 572-577: the memo whatIfAvg for the list es, the selected id and the text of
\* the hypothetical grade
whatIfAvg(es, id, text) ==
    LET g == parseGrade(text)
    IN IF g = {} THEN weightedAverage(es)
       ELSE weightedAverage(simulated(es, id, CHOOSE v \in g : TRUE))

\* function updateExam(id, patch) from the three inputs of a row of the table: the
\* name, the cfu (parseCfu(Number(ev.target.value))) or the grade as typed
UpdateExam(Names, CfuTexts, GradeTexts) ==
    /\ \E i \in 1..Len(exams) :
         \/ \E name \in Names :
              /\ name # exams[i].name
              /\ exams' = [exams EXCEPT ![i].name = name]
         \/ \E text \in CfuTexts :
              /\ parseCfu(Number(JStr(text))) # exams[i].cfu
              /\ exams' = [exams EXCEPT ![i].cfu = parseCfu(Number(JStr(text)))]
         \/ \E text \in GradeTexts :
              /\ text # exams[i].grade
              /\ exams' = [exams EXCEPT ![i].grade = text]
    /\ whatIfExamId' = realign(exams', whatIfExamId)
    /\ storage' = persist(storage, exams')
    /\ UNCHANGED <<status, statusTimer, course, imp, nextId, whatIfGrade, lookup, csv>>
    /\ UNCHANGED serverVars

\* the user picks an exam in the select of the simulator
SetWhatIfExamId ==
    /\ \E i \in 1..Len(exams) :
         /\ exams[i].id # whatIfExamId
         /\ whatIfExamId' = realign(exams, exams[i].id)
    /\ UNCHANGED <<storage, exams, status, statusTimer, course, imp, nextId, whatIfGrade, lookup, csv>>
    /\ UNCHANGED serverVars

\* the user types the hypothetical grade
SetWhatIfGrade(GradeTexts) ==
    /\ \E text \in GradeTexts :
         /\ text # whatIfGrade
         /\ whatIfGrade' = text
    /\ UNCHANGED <<storage, exams, whatIfExamId, status, statusTimer, course, imp, nextId, lookup, csv>>
    /\ UNCHANGED serverVars

\* grades the user may type: none, 30 between blanks, 31, 18.5 and 30,5
GradeTexts ==
    {<<>>, <<" ", "3", "0", " ">>, <<"3", "1">>, <<"1", "8", ".", "5">>,
     <<"3", "0", ",", "5">>}

\* what the cfu box may hold: 0.9, which parseCfu takes down to 0
CfuTexts == {<<"0", ".", "9">>}

\* a name the user may type
ExamNames == {<<"Chimica">>}

\* the page opened on the demo list, nothing stored yet
InitAverage ==
    /\ table = {}
    /\ clock = 0
    /\ reqs = [r \in Req |-> IdleReq]
    /\ InitClient

\* the user edits the table and the simulator
NextAverage ==
    \/ UpdateExam(ExamNames, CfuTexts, GradeTexts)
    \/ SetWhatIfExamId
    \/ SetWhatIfGrade(GradeTexts)
    \/ RemoveExam

SpecAverage == InitAverage /\ [][NextAverage]_vars

(***************************************************************************)
(* One table of fields, written with either separator and parsed           *)
(***************************************************************************)
\* most rows of a table
MaxCsvRows == 2

\* the text of a table: the header and one line per row, the fields joined by sep
CsvText(cells, sep) ==
    Lines(<<HeaderLine(sep)>>
          \o [i \in 1..Len(cells) |-> Cells(cells[i][1], cells[i][2], cells[i][3], sep)],
          LF)

\* lines 647-660 of onPickPlanFile on a text: the planRows, none when the headers
\* are refused
planRowsOfText(text) ==
    LET fromParsed(p) ==
            IF headersOk(p.headers, EXPECTED_HEADERS) THEN planRowsOf(p.headers, p.rows)
            ELSE <<>>
    IN CHOOSE rows \in {fromParsed(p) : p \in {parseCsvAuto(text)}} : TRUE

\* somebody writes a table of fields
WriteCsv(Rows) ==
    /\ csv.pc = "none"
    /\ \E t \in SeqsUpTo(Rows, MaxCsvRows) :
         csv' = [csv EXCEPT !.pc = "written", !.cells = t]
    /\ UNCHANGED <<storage, exams, whatIfExamId, status, statusTimer, course, imp, nextId, whatIfGrade, lookup>>
    /\ UNCHANGED serverVars

\* the table is written once with ";" and once with ","; parseCsvAuto and the row
\* mapping of the import run on both texts
ParseCsv ==
    /\ csv.pc = "written"
    /\ csv' = [csv EXCEPT !.pc = "parsed",
                          !.semicolon = parseCsvAuto(CsvText(csv.cells, ";")),
                          !.comma = parseCsvAuto(CsvText(csv.cells, ",")),
                          !.planRows = [semicolon |-> planRowsOfText(CsvText(csv.cells, ";")),
                                        comma |-> planRowsOfText(CsvText(csv.cells, ","))]]
    /\ UNCHANGED <<storage, exams, whatIfExamId, status, statusTimer, course, imp, nextId, whatIfGrade, lookup>>
    /\ UNCHANGED serverVars

\* rows of fields: plain ones, cfu with a decimal point or comma, a title with a
\* comma, a code with a semicolon, blank fields, quotes, cfu that are no number,
\* negative, below 1 or infinite, and a title with a comma between quotes
CsvRows ==
    {<<<<"A1">>, <<"Analisi">>, <<"6">>>>,
     <<<<"A2">>, <<"Fisica">>, <<"3", "0", ".", "9">>>>,
     <<<<"A3">>, <<"Chimica">>, <<"3", "0", ",", "5">>>>,
     <<<<"A4">>, <<"Analisi", ",", " ", "1">>, <<"9">>>>,
     <<<<"A", ";", "5">>, <<"Fisica">>, <<"6">>>>,
     <<<<>>, <<"Chimica">>, <<"6">>>>,
     <<<<"A7">>, <<" ">>, <<"6">>>>,
     <<<<"\"", "A8", "\"">>, <<" ", "Fisica", " ">>, <<" ", "1", "2", " ">>>>,
     <<<<"A9">>, <<"Fisica">>, <<"abc">>>>,
     <<<<"A10">>, <<"Fisica">>, <<"-", "2", ".", "5">>>>,
     <<<<"A11">>, <<"Fisica">>, <<"0", ",", "5">>>>,
     <<<<"A12">>, <<"Fisica">>, <<"Infinity">>>>,
     <<<<"A13">>, <<"Fisica">>, <<>>>>,
     <<<<"A14">>, <<"\"", "Analisi", ",", " ", "1", "\"">>, <<"9">>>>}

NextCsv ==
    \/ WriteCsv(CsvRows)
    \/ ParseCsv

SpecCsv == InitAverage /\ [][NextCsv]_vars

(***************************************************************************)
(* localStorage: the list is loaded when the page starts                   *)
(***************************************************************************)
\* String(v ?? "") of a stored field: the string itself, the digits of a whole number,
\* "" for null and undefined (booleans, objects and fractions are not among the inputs)
StringOrEmpty(v) ==
    CASE v.t = "string" -> v.s
      [] v.t = "number" /\ v.k = "int" /\ v.n >= 0 -> NatToString(v.n)
      [] OTHER -> <<>>

\* v ?? 0
OrZero(v) == IF v.t \in {"undefined", "null"} THEN JNum(0) ELSE v

\* a stored entry that is an object, and one that is none (null): every e?.field of
\* the latter is undefined
StoredExam(id, name, cfu, grade) ==
    [t |-> "object", id |-> id, name |-> name, cfu |-> cfu, grade |-> grade]
NoEntry == [t |-> "null", id |-> JUndef, name |-> JUndef, cfu |-> JUndef, grade |-> JUndef]

\* the id string of a stored exam: its one atom, 0 for ""
IdOf(v) == IF v.s = <<>> THEN 0 ELSE v.s[1]

\* lines 513-518, parsed.map(...): an entry without a string id draws one from makeId,
\* the ids being first, first + 1, ...
RECURSIVE loadEntries(_, _)
loadEntries(items, first) ==
    IF items = <<>> THEN <<>>
    ELSE LET e == Head(items)
             own == e.id.t = "string"
         IN <<[id |-> IF own THEN IdOf(e.id) ELSE first,
               name |-> StringOrEmpty(e.name),
               cfu |-> parseCfu(Number(OrZero(e.cfu))),
               grade |-> StringOrEmpty(e.grade)]>>
            \o loadEntries(Tail(items), IF own THEN first ELSE first + 1)

\* an initializer that takes the stored cfu as it is
loadExamsRawCfu(item, first) ==
    IF item.t # "array" THEN demoExams(first)
    ELSE [i \in 1..Len(item.items) |->
            [id |-> first + i - 1, name |-> StringOrEmpty(item.items[i].name),
             cfu |-> item.items[i].cfu, grade |-> StringOrEmpty(item.items[i].grade)]]

\* the initializer of useState<Exam[]>: item is what JSON.parse made of the stored text,
\* "absent" when there is none or it is empty, "invalid" when JSON.parse throws
loadExams(item, first) ==
    IF item.t # "array" THEN demoExams(first)
    ELSE SelectSeq(loadEntries(item.items, first),
                   LAMBDA e : Len(e.name) > 0 \/ e.cfu.n > 0 \/ Trim(e.grade) # <<>>)

\* the ids the initializer draws from makeId
idsDrawn(item) ==
    IF item.t # "array" THEN 3
    ELSE Cardinality({i \in 1..Len(item.items) : item.items[i].id.t # "string"})

\* the user reloads the page: every state starts again from localStorage, the requests
\* under way are no longer awaited; the effects of the first render have run
Reload ==
    /\ nextId + idsDrawn(storage.item) - 1 <= MaxIds
    /\ exams' = loadExams(storage.item, nextId)
    /\ nextId' = nextId + idsDrawn(storage.item)
    /\ whatIfExamId' = realign(exams', 0)
    /\ storage' = persist(storage, exams')
    /\ status' = ""
    /\ statusTimer' = FALSE
    /\ course' = [xx |-> <<>>, yy |-> <<>>]
    /\ imp' = IdleImp
    /\ whatIfGrade' = <<"2", "8">>
    /\ lookup' = [IdleLookup EXCEPT !.merges = lookup.merges]
    /\ UNCHANGED csv
    /\ UNCHANGED serverVars

\* what the storage may hold when the page starts: nothing, a text that is no JSON, a
\* JSON value that is no array, the empty list, a list the program wrote, and lists
\* with entries the program never wrote (no id, a cfu that is a fraction, negative, a
\* text or missing, a name that is a number, an entry that is null)
StoredItems ==
    {JNoArr("absent"), JNoArr("invalid"), JNoArr("object"), JArr(<<>>),
     JArr(<<StoredExam(JStr(<<1>>), JStr(<<"Analisi", " ", "1">>), JNum(10), JStr(<<"2", "8">>)),
            StoredExam(JStr(<<2>>), JStr(<<"Fisica", " ", "1">>), JNum(5), JStr(<<>>))>>),
     JArr(<<StoredExam(JUndef, JNum(7), JFrac(6), JUndef),
            StoredExam(JStr(<<1>>), JStr(<<"Logica">>), JNum(0 - 3), JNull)>>),
     JArr(<<NoEntry,
            StoredExam(JStr(<<2>>), JStr(<<>>), JStr(<<"a", "b", "c">>), JStr(<<"3", "0">>))>>),
     JArr(<<StoredExam(JStr(<<1>>), JStr(<<"Etica">>), JStr(<<"1", "2", ".", "5">>), JStr(<<>>)),
            StoredExam(JNum(2), JStr(<<>>), JUndef, JStr(<<" ">>))>>)}

\* what the cfu box (a number input) hands over: a negative number, the empty text it
\* gives for anything that is no number, a fraction
StoredCfuTexts == {<<"-", "3">>, <<>>, <<"7", ".", "5">>}

\* the page started on what the storage held; the ids 1 and 2 are those of stored exams.
\* In a browser that refuses every write (full) the storage held nothing or an empty list
InitStorage ==
    /\ table = {SeedDoc, LookupDoc}
    /\ clock = 0
    /\ reqs = [r \in Req |-> IdleReq]
    /\ \E item \in StoredItems, full \in BOOLEAN :
         /\ full => item \in {JNoArr("absent"), JArr(<<>>)}
         /\ exams = loadExams(item, 3)
         /\ nextId = 3 + idsDrawn(item)
         /\ storage = persist([item |-> item, full |-> full], exams)
    /\ whatIfExamId = realign(exams, 0)
    /\ status = ""
    /\ statusTimer = FALSE
    /\ course = [xx |-> <<>>, yy |-> <<>>]
    /\ imp = IdleImp
    /\ whatIfGrade = <<"2", "8">>
    /\ lookup = IdleLookup
    /\ csv = NoCsv

\* the user edits the cfu box of the first row of the table
EditFirstCfu ==
    /\ UpdateExam({}, StoredCfuTexts, {})
    /\ Tail(exams') = Tail(exams)

\* the user clicks the search button before any request was sent
FirstLookup ==
    /\ IdleSlots = Req /\ imp.pc = "idle"
    /\ DoLookup

\* the user edits the list, imports a file, merges a stored plan and reloads the page
NextStorage ==
    \/ AddExam
    \/ RemoveExam
    \/ EditFirstCfu
    \/ ResetDemo
    \/ ClearAll
    \/ Reload
    \/ PickFile(RequestNames, RequestTexts)
    \/ FileRead
    \/ CheckAnswered
    \/ SaveAnswered
    \/ FetchFails
    \/ OpenLookup
    \/ SetLookupCode({<<<<"1", "2">>, <<"3", "4">>>>})
    \/ FirstLookup
    \/ LookupAnswered
    \/ LookupFetchFails
    \/ AddSelectedFromFound
    \/ \E r \in Req : GetSelect(r) \/ PostCheck(r) \/ PostInsert(r)

SpecStorage == InitStorage /\ [][NextStorage]_vars

(***************************************************************************)
(* Properties of the CSV import                                            *)
(***************************************************************************)
\* an import step: a step of handleCsvUpload / onPickPlanFile
ImportStep == imp' # imp

\* the step in which the import, all parsing done, goes on to check the store
ParsedStep == imp.pc = "reading" /\ imp'.pc = "checking"

\* C10: import atomicity. A step of an import leaves the exam list as it is, except
\* the one step taken when the file name, the headers and the rows have all passed:
\* that step replaces the list by the normalized rows, in file order, each with an
\* empty grade. An import that fails at the file name, at the headers or for want of
\* rows therefore never touches the list.
C10_ImportAtomic ==
    [][ImportStep =>
          IF ParsedStep
          THEN /\ parseCourseFromFilename(imp.name) # {}
               /\ MapSeq(normalizeHeaderName, parseCsvAuto(imp.text).headers) = EXPECTED_HEADERS
               /\ Len(imp'.planRows) >= 1
               /\ Len(exams') = Len(imp'.planRows)
               /\ \A i \in 1..Len(exams') :
                      /\ exams'[i].name = imp'.planRows[i].denominazione
                      /\ exams'[i].cfu = imp'.planRows[i].cfu
                      /\ exams'[i].grade = <<>>
                      /\ \A j \in 1..Len(exams) : exams[j].id # exams'[i].id
               /\ \A k \in 1..Len(imp'.planRows) :
                      imp'.planRows[k].cfu.k = "int" /\ imp'.planRows[k].cfu.n >= 1
          ELSE /\ exams' = exams
               /\ imp'.result \in {"filename", "header", "norows"} =>
                      imp'.pc = "idle" /\ reqs' = reqs]_vars

\* an import failed for want of rows on a list the user had edited, and left it alone
C10_Witness ==
    /\ imp.result = "norows"
    /\ imp.pc = "idle"
    /\ Len(exams) = 4
    /\ status = "Errore: CSV valido ma nessuna riga utile."

(***************************************************************************)
(* Properties of the requests of an import                                *)
(***************************************************************************)
\* some request is sent in this step
Sends(method) == \E r \in Req : Arrives(r, method)

\* the import takes the answer of its GET in this step (the fetch did not fail)
TakesCheck ==
    /\ imp.pc = "checking" /\ imp' # imp /\ imp'.result # "network"
    /\ reqs[imp.get].pc = "done"

\* C11: import request ordering. A POST is sent only by an import whose GET for the
\* same code has been answered, with 404 and no prompt or with 200 and the user's
\* yes; on 404 the POST is sent without a prompt, on 200 only if the user confirms;
\* when the GET answered anything else, or the user declined, no POST is sent.
C11_ImportOrdering ==
    [][/\ \A r \in Req :
            Arrives(r, "POST") =>
                /\ imp.pc = "checking" /\ imp'.pc = "saving" /\ imp'.post = r
                /\ IsGet(imp.get) /\ Answered(imp.get)
                /\ reqs[imp.get].code = JStr(imp.code)
                /\ reqs'[r].code = JStr(imp.code)
                /\ \/ reqs[imp.get].status = 404 /\ imp'.prompt = "none"
                   \/ reqs[imp.get].status = 200 /\ imp'.prompt = "yes"
       /\ TakesCheck =>
            /\ reqs[imp.get].status = 404 => (Sends("POST") /\ imp'.prompt = "none")
            /\ reqs[imp.get].status = 200 => (Sends("POST") <=> imp'.prompt = "yes")
            /\ reqs[imp.get].status = 200 => imp'.prompt \in {"yes", "no"}
            /\ reqs[imp.get].status \notin {200, 404} =>
                   (reqs' = reqs /\ imp'.pc = "idle" /\ imp'.result = "check")
            /\ imp'.prompt = "no" =>
                   (reqs' = reqs /\ imp'.pc = "idle" /\ imp'.result = "declined")]_vars

\* the user confirmed the overwrite of a stored plan, and the POST has been sent
C11_Witness ==
    /\ imp.pc = "saving"
    /\ imp.prompt = "yes"
    /\ IsPost(imp.post)
    /\ reqs[imp.get].status = 200

\* the import takes the answer of its POST in this step, after the user confirmed an overwrite
TakesSaveConfirmed ==
    /\ imp.pc = "saving" /\ imp.prompt = "yes"
    /\ imp' # imp /\ imp'.result # "network"

ErrorStatus(st) ==
    st \in {"Errore: Errore salvataggio API", "Errore: Failed to fetch"}

PlanFileName(name) ==
    /\ Len(name) = 7
    /\ CODE_RE(SubSeq(name, 1, 5))
    /\ name[6] = "."
    /\ name[7] \in {"csv", "CSV", "Csv"}

\* the user picks a file in this step
Picks == imp.pc = "idle" /\ imp' # imp

\* the requests of the running import
ImportRequests == {r \in {imp.get, imp.post} : r # 0}

\* C16 as stated: an import proceeds past the file name exactly when the name, as it
\* is, is dd-dd.csv.
C16_AsStated ==
    [][Picks => (imp'.pc = "reading" <=> PlanFileName(imp'.name))]_vars

\* C16 (amended): filename contract. An import proceeds past the file name exactly
\* when the name, after surrounding whitespace is trimmed, is dd-dd.csv in any letter
\* case of the extension; the code is then the five atoms dd-dd of the trimmed name;
\* every request of the import carries that code, which has the shape the server
\* asks for, so that no request of an import is answered "Bad code" or "No code".
C16_FilenameContract ==
    [][/\ Picks =>
            /\ imp'.pc = "reading" <=> PlanFileName(Trim(imp'.name))
            /\ imp'.pc # "reading" => (imp'.pc = "idle" /\ imp'.result = "filename"
                                        /\ reqs' = reqs /\ exams' = exams)
            /\ imp'.pc = "reading" => imp'.code = SubSeq(Trim(imp'.name), 1, 5)
       /\ imp'.pc # "idle" =>
            /\ imp'.code = SubSeq(Trim(imp'.name), 1, 5)
            /\ CODE_RE(imp'.code)
       /\ \A r \in Req :
            (reqs[r].pc = "idle" /\ reqs'[r].pc # "idle" /\ imp' # imp) =>
                /\ reqs'[r].code = JStr(imp.code)
                /\ CODE_RE(reqs'[r].code.s)
                /\ reqs'[r].error \notin {BadCodeMsg, NoCodeMsg}
       /\ \A r \in ImportRequests :
            reqs'[r].error \notin {BadCodeMsg, NoCodeMsg}]_vars

\* the name " 07-89.CSV " was accepted and the store was asked for 07-89
C16_Witness ==
    /\ imp.pc = "checking"
    /\ imp.name = <<" ">> \o CodeA \o <<".", "CSV", " ">>
    /\ imp.code = CodeA
    /\ reqs[imp.get].code = JStr(CodeA)
    /\ Answered(imp.get)

\* the import takes the text of its file in this step
ReadsFile == imp.pc = "reading" /\ imp' # imp

\* the headers of the file being read, as parsed and then normalized
FoundHeaders == MapSeq(normalizeHeaderName, parseCsvAuto(imp.text).headers)

\* C17: header validation. An import passes header validation exactly when the parsed
\* headers, normalized, are Codice, Denominazione, CFU in that order. With any other
\* header (wrong case, other order, a missing or an extra column) it ends with the
\* header error, which names the expected and the found headers, sends no request
\* and leaves the exam list alone.
C17_HeaderValidation ==
    [][ReadsFile =>
          /\ imp'.result = "header" <=> FoundHeaders # <<<<"Codice">>, <<"Denominazione">>, <<"CFU">>>>
          /\ imp.text \in {TextCase, TextOrder, TextExtra, TextMissing} => imp'.result = "header"
          /\ imp.text \in {TextGood, TextComma, TextNul} => imp'.result # "header"
          /\ imp'.result = "header" =>
                /\ imp'.pc = "idle"
                /\ status' = "Errore: Header CSV non valido."
                /\ imp'.detail.atteso = <<"Codice", ";", "Denominazione", ";", "CFU">>
                /\ imp'.detail.trovato = Join(FoundHeaders, ";")
                /\ reqs' = reqs
                /\ exams' = exams
                /\ table' = table]_vars

\* the import of a file with the header Codice;Denominazione;Cfu ended with the header error
C17_Witness ==
    /\ imp.pc = "idle" /\ imp.result = "header"
    /\ imp.detail.trovato = <<"Codice", ";", "Denominazione", ";", "Cfu">>
    /\ status = "Errore: Header CSV non valido."
    /\ \A r \in Req : reqs[r].pc = "idle"


(***************************************************************************)
(* Properties of the merge of a fetched plan                               *)
(***************************************************************************)
\* the key the merge is said to compare: the title trimmed, in lower case and with
\* every run of whitespace collapsed, paired with the cfu
MergeKey(name, cfu) == <<CollapseSpaces(MapSeq(ToLowerTitle, Trim(name))), cfu.n>>

\* the step of addSelectedFromFound that merges the selected rows
MergeStep == lookup'.merges = lookup.merges + 1

\* the rows selected in the modal, in the order of the plan
SelectedNow == selectedRows(foundRows, lookup.selectedIdx)

\* row i of the selected rows is new: no exam of the list and no earlier selected row
\* has its key
IsNewRow(sel, list, i) ==
    /\ \A e \in 1..Len(list) :
         MergeKey(list[e].name, list[e].cfu) # MergeKey(sel[i].denominazione, sel[i].cfu)
    /\ \A j \in 1..(i - 1) :
         MergeKey(sel[j].denominazione, sel[j].cfu) # MergeKey(sel[i].denominazione, sel[i].cfu)

\* the selected rows that are new, in order
NewRows(sel, list) ==
    LET RECURSIVE from(_)
        from(i) == IF i > Len(sel) THEN <<>>
                   ELSE (IF IsNewRow(sel, list, i) THEN <<sel[i]>> ELSE <<>>) \o from(i + 1)
    IN from(1)

\* C15: when selected rows of a fetched plan are merged, the list grows by exactly the
\* selected rows whose key (normalized title, cfu) is neither the key of an exam of the
\* list nor of an earlier selected row, in order, each with its title and cfu and an
\* empty grade; the exams already there stay as they are; a row that differs from an
\* exam only in cfu is therefore added; added plus skipped is the number selected
C15_MergeSuppressesDuplicates ==
    [][MergeStep =>
         LET new == NewRows(SelectedNow, exams)
         IN /\ Len(exams') = Len(exams) + Len(new)
            /\ SubSeq(exams', 1, Len(exams)) = exams
            /\ \A i \in 1..Len(new) :
                 LET e == exams'[Len(exams) + i]
                 IN /\ e.name = new[i].denominazione
                    /\ e.cfu = new[i].cfu
                    /\ e.grade = <<>>
            /\ \A i \in 1..Len(SelectedNow) :
                 IsNewRow(SelectedNow, exams, i) =>
                     \E k \in (Len(exams) + 1)..Len(exams') :
                         /\ exams'[k].name = SelectedNow[i].denominazione
                         /\ exams'[k].cfu = SelectedNow[i].cfu
            /\ lookup'.report.added = Len(new)
            /\ lookup'.report.added + lookup'.report.skipped = Len(SelectedNow)]_vars

\* one merge of all three rows of the plan found into the demo list: the row that
\* repeats "Analisi 1" with 10 cfu in capitals is skipped, the one with 9 cfu is added,
\* and the row that repeats that one is skipped
C15_Witness ==
    /\ lookup.merges = 1
    /\ lookup.selectedIdx = {1, 2, 3}
    /\ lookup.report = [added |-> 1, skipped |-> 2]
    /\ Len(exams) = 4
    /\ exams[1].name = <<"Analisi", " ", "1">> /\ exams[1].cfu = JNum(10)
    /\ exams[4].name = <<"Analisi", " ", "1">> /\ exams[4].cfu = JNum(9) /\ exams[4].grade = <<>>
    /\ status = "Aggiunti esami dal piano (saltati duplicati)."

(***************************************************************************)
(* Properties of the averages                                              *)
(***************************************************************************)
\* the page shows the two memos for the list and the simulator's inputs
currentAvg == weightedAverage(exams)
shownWhatIfAvg == whatIfAvg(exams, whatIfExamId, whatIfGrade)

\* an exam that counts: its grade is a number between 0 and 30, its cfu is above 0
Counts(e) ==
    /\ \E v \in parseGradeAnyRange(e.grade) : 0 <= v.num /\ v.num <= 30 * v.den
    /\ e.cfu.n > 0

\* the sum of grade * cfu and the sum of cfu over the exams of es at the indices of S
RECURSIVE PointsOver(_, _)
PointsOver(S, es) ==
    IF S = {} THEN [num |-> 0, den |-> 1]
    ELSE LET i == CHOOSE j \in S : TRUE
         IN RatAdd(RatTimes(CHOOSE v \in parseGradeAnyRange(es[i].grade) : TRUE, es[i].cfu.n),
                   PointsOver(S \ {i}, es))
RECURSIVE CreditsOver(_, _)
CreditsOver(S, es) ==
    IF S = {} THEN 0
    ELSE LET i == CHOOSE j \in S : TRUE IN es[i].cfu.n + CreditsOver(S \ {i}, es)

\* two results of an average are the same: both none, or the same number
SameAverage(A, B) ==
    /\ (A = {}) <=> (B = {})
    /\ \A a \in A, b \in B : RatEq(a, b)

\* C13: for the exam list of every state, weightedAverage is the sum of grade * cfu
\* divided by the sum of cfu, both taken over exactly the exams whose grade is a number
\* in [0, 30] and whose cfu is above 0, and it is null if and only if that sum of cfu
\* is 0
C13_WeightedAverage ==
    LET counted == {i \in 1..Len(exams) : Counts(exams[i])}
        points == PointsOver(counted, exams)
        credits == CreditsOver(counted, exams)
    IN /\ (currentAvg = {}) <=> (credits = 0)
       /\ \A a \in currentAvg : RatEq(a, [num |-> points.num, den |-> points.den * credits])

\* the demo list after three edits: 28 with 10 cfu, 30 (typed between blanks) with a
\* cfu of 0, 18.5 with 5 cfu; the average is (280 + 92.5) / 15
C13_Witness ==
    /\ Len(exams) = 3
    /\ exams[1].grade = <<"2", "8">> /\ exams[1].cfu = JNum(10)
    /\ exams[2].grade = <<" ", "3", "0", " ">> /\ exams[2].cfu = JNum(0)
    /\ exams[3].grade = <<"1", "8", ".", "5">> /\ exams[3].cfu = JNum(5)
    /\ \E a \in currentAvg : RatEq(a, [num |-> 745, den |-> 30])

\* the list in which the selected exam has the text of the hypothetical grade
Replaced ==
    [i \in 1..Len(exams) |->
        IF exams[i].id = whatIfExamId THEN [exams[i] EXCEPT !.grade = whatIfGrade]
        ELSE exams[i]]

\* C14: the simulated average is the weighted average of the list in which only the
\* selected exam's grade is replaced by the hypothetical value; when the hypothetical
\* text is not a number in [0, 30] it is the current average; the list the simulation
\* works on differs from the exam list in nothing but the grade of the selected exam
C14_WhatIf ==
    LET g == parseGrade(whatIfGrade)
    IN /\ g # {} => SameAverage(shownWhatIfAvg, weightedAverage(Replaced))
       /\ g = {} => SameAverage(shownWhatIfAvg, currentAvg)
       /\ \A v \in g :
            LET sim == simulated(exams, whatIfExamId, v)
            IN /\ Len(sim) = Len(exams)
               /\ \A i \in 1..Len(exams) :
                    /\ sim[i].id = exams[i].id
                    /\ sim[i].name = exams[i].name
                    /\ sim[i].cfu = exams[i].cfu
                    /\ exams[i].id # whatIfExamId => sim[i] = exams[i]
                    /\ exams[i].id = whatIfExamId => parseGrade(sim[i].grade) = {v}

\* the demo list with the third exam, which has no grade, selected and 30 typed
\* between blanks as its hypothetical grade: (280 + 240 + 150) / 25 instead of
\* (280 + 240) / 20
C14_Witness ==
    /\ Len(exams) = 3
    /\ exams[1].grade = <<"2", "8">> /\ exams[1].cfu = JNum(10)
    /\ exams[2].grade = <<"2", "4">> /\ exams[2].cfu = JNum(10)
    /\ exams[3].grade = <<>> /\ exams[3].cfu = JNum(5)
    /\ whatIfExamId = exams[3].id
    /\ whatIfGrade = <<" ", "3", "0", " ">>
    /\ \E a \in currentAvg : RatEq(a, [num |-> 26, den |-> 1])
    /\ \E a \in shownWhatIfAvg : RatEq(a, [num |-> 670, den |-> 25])


(***************************************************************************)
(* Properties of the CSV parser and of the row mapping                     *)
(***************************************************************************)
\* both texts of the table have been parsed
Parsed == csv.pc = "parsed"

\* C18 as stated: whatever the fields hold, the text with commas and the text with
\* semicolons parse to the same headers and the same rows.
C18_AsStated ==
    Parsed => /\ csv.comma.headers = csv.semicolon.headers
              /\ csv.comma.rows = csv.semicolon.rows

\* the row A14;"Analisi, 1";9: from the text with semicolons the import makes the exam
\* "Analisi, 1" with 9 cfu, from the text with commas the exam "Analisi" with 1 cfu
C18_QuotedComma ==
    /\ Parsed
    /\ csv.cells = << <<<<"A14">>, <<"\"", "Analisi", ",", " ", "1", "\"">>, <<"9">>>> >>
    /\ csv.planRows.semicolon =
         <<[codice |-> <<"A14">>, denominazione |-> <<"Analisi", ",", " ", "1">>, cfu |-> JNum(9)]>>
    /\ csv.planRows.comma =
         <<[codice |-> <<"A14">>, denominazione |-> <<"Analisi">>, cfu |-> JNum(1)]>>

\* no field of the table holds a comma or a semicolon
NoSeparatorInFields ==
    \A i \in 1..Len(csv.cells), k \in 1..3 :
        \A j \in 1..Len(csv.cells[i][k]) : csv.cells[i][k][j] \notin {",", ";"}

\* C18: when no field holds a comma or a semicolon, the text with commas and the text
\* with semicolons parse to the same headers and the same rows: the three header names
\* and, line by line, the fields without the blanks and the quotes around them; the
\* separator found is the one the text was written with
C18_DelimiterIndependence ==
    (Parsed /\ NoSeparatorInFields) =>
        /\ csv.comma.headers = csv.semicolon.headers
        /\ csv.comma.rows = csv.semicolon.rows
        /\ csv.semicolon.sep = ";"
        /\ Len(csv.cells) >= 1 =>
             /\ csv.comma.sep = ","
             /\ csv.comma.headers = EXPECTED_HEADERS
             /\ Len(csv.comma.rows) = Len(csv.cells)
             /\ \A i \in 1..Len(csv.cells), k \in 1..3 :
                  csv.comma.rows[i][k] = StripQuotes(Trim(csv.cells[i][k]))

\* a plain row and a row with quotes and blanks around its fields, parsed alike from
\* both texts
C18_Witness ==
    /\ Parsed
    /\ csv.cells = << <<<<"A1">>, <<"Analisi">>, <<"6">>>>,
                      <<<<"\"", "A8", "\"">>, <<" ", "Fisica", " ">>, <<" ", "1", "2", " ">>>> >>
    /\ csv.comma.sep = "," /\ csv.semicolon.sep = ";"
    /\ csv.comma.rows = << <<<<"A1">>, <<"Analisi">>, <<"6">>>>,
                           <<<<"A8">>, <<"Fisica">>, <<"1", "2">>>> >>
    /\ csv.semicolon.rows = csv.comma.rows

\* the cfu a field text stands for: the floor of the number it writes, with a point or
\* a comma before its decimals, not below 0; 0 when it writes no finite number
ExpectedCfu(text) ==
    LET t == ReplaceFirstComma(Trim(text))
    IN IF t = <<>> THEN 0
       ELSE IF ~NumberIsFinite(StringToNumber(t)) THEN 0
       ELSE Max(0, DecimalValue(t).num \div DecimalValue(t).den)

\* the rows an import keeps of the parsed rows, in order: codice and denominazione not
\* blank, cfu above 0
ExpectedPlanRows(rows) ==
    LET RECURSIVE from(_)
        from(i) ==
            IF i > Len(rows) THEN <<>>
            ELSE (IF /\ StripQuotes(Trim(rows[i][1])) # <<>>
                     /\ StripQuotes(Trim(rows[i][2])) # <<>>
                     /\ ExpectedCfu(rows[i][3]) > 0
                  THEN <<[codice |-> StripQuotes(Trim(rows[i][1])),
                          denominazione |-> StripQuotes(Trim(rows[i][2])),
                          cfu |-> JNum(ExpectedCfu(rows[i][3]))]>>
                  ELSE <<>>) \o from(i + 1)
    IN from(1)

\* C19: the cfu of a parsed CFU field is the floor of the number it writes (decimal
\* point or comma), never below 0, and 0 when it writes no finite number; it is always
\* a non-negative integer; the import keeps, in order, exactly the rows whose cfu is
\* above 0 and whose codice and denominazione are not blank
C19_CfuNormalization ==
    Parsed =>
      \A which \in {"semicolon", "comma"} :
        /\ \A i \in 1..Len(csv[which].rows) :
             LET field == csv[which].rows[i][3]
                 cfu == parseCfu(Number(JStr(ReplaceFirstComma(Trim(field)))))
             IN /\ cfu = JNum(ExpectedCfu(field))
                /\ cfu.k = "int" /\ cfu.n >= 0
        /\ headersOk(csv[which].headers, EXPECTED_HEADERS) =>
             csv.planRows[which] = ExpectedPlanRows(csv[which].rows)
        /\ \A i \in 1..Len(csv.planRows[which]) :
             /\ csv.planRows[which][i].cfu.k = "int"
             /\ csv.planRows[which][i].cfu.n >= 1

\* a row with cfu 30,5 and a row with cfu 0,5 in the text with semicolons: the first is
\* kept with 30, the second dropped; a row with 30.9 gives 30 too
C19_Witness ==
    /\ Parsed
    /\ csv.cells = << <<<<"A3">>, <<"Chimica">>, <<"3", "0", ",", "5">>>>,
                      <<<<"A11">>, <<"Fisica">>, <<"0", ",", "5">>>> >>
    /\ csv.semicolon.rows[1][3] = <<"3", "0", ",", "5">>
    /\ csv.planRows.semicolon =
         <<[codice |-> <<"A3">>, denominazione |-> <<"Chimica">>, cfu |-> JNum(30)]>>
    /\ parseCfu(Number(JStr(<<"3", "0", ".", "9">>))) = JNum(30)


(***************************************************************************)
(* Properties of the requests the client sends                             *)
(***************************************************************************)
\* the requests sent in this step
NewRequests == {r \in Req : reqs[r].pc = "idle" /\ reqs'[r].pc # "idle"}

\* the import takes an answer in this step, or its fetch fails
ImportTakes(pc) == imp.pc = pc /\ imp' # imp
\* a call of doLookupPlan ends in this step with the answer of r or a failed fetch
LookupEnds == lookup'.calls # lookup.calls /\ lookup'.calls \subseteq lookup.calls

\* the answer of request r is a failure, a conflict or not found
Refusal(r) == Answered(r) /\ reqs[r].status # 200

\* C20 as stated: a step in which the client takes a failure, a conflict or a
\* not-found answer, of an import or of a lookup, sends no request.
C20_AsStated ==
    [][(\/ ImportTakes("checking") /\ Refusal(imp.get)
        \/ ImportTakes("saving") /\ Refusal(imp.post)
        \/ LookupEnds)
       => NewRequests = {}]_vars

\* C20 (amended): no automatic retry. Every step sends at most one request, and a
\* request is sent only (a) by an import that has just read its file: its one GET,
\* (b) by an import whose GET was answered 200 or 404: its one POST, (c) by the user's
\* click on the search button of the lookup: one GET. An import runs from the file the
\* user picked through check and save and never goes back, so it sends at most one GET
\* and one POST. A step that ends a lookup call, that takes any answer of the POST,
\* that takes an answer of the import's GET other than 200 and 404, or in which a fetch
\* fails, sends nothing and leaves the import idle, until the user picks a file or
\* clicks again.
C20_NoRetry ==
    [][/\ Cardinality(NewRequests) <= 1
       /\ \A r \in NewRequests :
            \/ /\ imp.pc = "reading" /\ imp'.pc = "checking" /\ imp'.get = r
               /\ reqs'[r].method = "GET" /\ lookup' = lookup
            \/ /\ imp.pc = "checking" /\ imp'.pc = "saving" /\ imp'.post = r
               /\ reqs'[r].method = "POST" /\ lookup' = lookup
               /\ Answered(imp.get) /\ reqs[imp.get].status \in {200, 404}
            \/ /\ lookup.open /\ ~lookup.loading /\ lookup'.loading
               /\ lookup'.calls = lookup.calls \cup {r} /\ r \notin lookup.calls
               /\ reqs'[r].method = "GET" /\ imp' = imp
       /\ imp' # imp => \/ imp.pc = "idle" /\ imp'.pc \in {"idle", "reading"}
                        \/ imp.pc = "reading" /\ imp'.pc \in {"idle", "checking"}
                        \/ imp.pc = "checking" /\ imp'.pc \in {"idle", "saving"}
                        \/ imp.pc = "saving" /\ imp'.pc = "idle"
       /\ (\/ ImportTakes("checking") /\ Answered(imp.get)
                /\ reqs[imp.get].status \notin {200, 404}
           \/ ImportTakes("saving")
           \/ (imp' # imp /\ imp'.result = "network")
           \/ LookupEnds)
          => /\ NewRequests = {}
             /\ imp' # imp => imp'.pc = "idle"]_vars

\* an import of 07-89.csv, a plan already stored: its GET answered 200, the user
\* confirmed, its POST answered 409 and the import ended; two requests were sent in
\* all, both answered, and no search is running
C20_Witness ==
    /\ imp.pc = "idle" /\ imp.result = "save"
    /\ status = "Errore: Errore salvataggio API"
    /\ \E g, p \in Req :
         /\ IsGet(g) /\ Answered(g) /\ reqs[g].status = 200
         /\ IsPost(p) /\ Answered(p) /\ reqs[p].status = 409
         /\ \A r \in Req \ {g, p} : reqs[r].pc = "idle"
    /\ lookup.calls = {}


(***************************************************************************)
(* Properties of the lookup modal                                          *)
(***************************************************************************)
\* the row indices of the plan the modal holds (counted from 1)
FoundIndices == 1..Len(foundRows)

\* a call of doLookupPlan ends in this step by showing the plan its GET returned
LookupFinds ==
    \E r \in lookup.calls \ lookup'.calls :
        /\ Success(r) /\ NoFault(r) /\ reqs[r].data # {}
        /\ lookup'.message = "Piano trovato"

\* a call of doLookupPlan sends its GET in this step
LookupStarts == \E r \in Req : r \in lookup'.calls \ lookup.calls

\* the modal is opened in this step
Reopens == ~lookup.open /\ lookup'.open

\* C22: lookup selection. In every state the selected set holds only row indices of
\* the plan found (none when there is no plan). The step in which a lookup finds a
\* plan ends with that plan shown and all its row indices selected. A step that starts
\* a lookup (sends its GET) or opens the modal ends with no plan and no selection.
\* Toggle, select-all and select-none change the selection only, within the indices.
C22_LookupSelection ==
    [][/\ lookup.selectedIdx \subseteq FoundIndices
       /\ lookup'.selectedIdx \subseteq FoundIndices'
       /\ LookupFinds =>
             /\ \E r \in lookup.calls \ lookup'.calls : lookup'.foundPlan = reqs[r].data
             /\ lookup'.selectedIdx = FoundIndices'
             /\ FoundIndices' # {}
       /\ (LookupStarts \/ Reopens) =>
             /\ lookup'.foundPlan = {}
             /\ lookup'.selectedIdx = {}
       /\ (lookup'.selectedIdx # lookup.selectedIdx /\ lookup'.calls = lookup.calls
             /\ lookup'.open = lookup.open)
            => lookup'.foundPlan = lookup.foundPlan /\ lookup.foundPlan # {}]_vars

\* the plan 12-34 was found with its three rows selected, and the user has toggled two
\* of them off: the modal shows the plan with only the second row selected
C22_Witness ==
    /\ lookup.open /\ ~lookup.loading
    /\ lookup.foundPlan = {LookupDoc}
    /\ lookup.selectedIdx = {2}
    /\ lookup.message = "Piano trovato"

\* the modal is closed in this step (Chiudi, the backdrop, or the merge)
Closes == lookup.open /\ ~lookup'.open

\* C23 as stated: a step that ends a call of doLookupPlan, by an answer or by a failed
\* fetch, ends with the loading flag false and a plan or a message shown; and the
\* loading flag of a lookup whose answer has not arrived is cleared by nothing but
\* closing the modal: whenever the flag goes from true to false while the modal stays
\* open, no GET of a lookup is still unanswered to the client.
C23_AsStated ==
    [][/\ LookupEnds =>
             /\ ~lookup'.loading
             /\ lookup'.foundPlan # {} \/ lookup'.message # ""
       /\ (lookup.loading /\ ~lookup'.loading /\ ~Closes) => lookup'.calls = {}]_vars

\* C23 (the part that holds): every call of doLookupPlan that ends, whatever the
\* answer, ends with the loading flag false and a plan or a message shown; the flag is
\* set only by the click that sends a GET, and cleared only by closing the modal or by
\* the end of a call of doLookupPlan, never by the passing of time.
C23_PendingState ==
    [][/\ LookupEnds =>
             /\ ~lookup'.loading
             /\ lookup'.foundPlan # {} \/ lookup'.message # ""
       /\ (~lookup.loading /\ lookup'.loading) => LookupStarts
       /\ (lookup.loading /\ ~lookup'.loading) => (Closes \/ LookupEnds)]_vars


(***************************************************************************)
(* Properties of the exam list                                             *)
(***************************************************************************)
\* item is the serialization of the list ex: an array with one object per exam, in the
\* order of the list, holding its id, name, cfu and grade
Serializes(item, ex) ==
    /\ item.t = "array"
    /\ Len(item.items) = Len(ex)
    /\ \A i \in 1..Len(ex) :
         /\ item.items[i].t = "object"
         /\ item.items[i].id.t = "string" /\ IdOf(item.items[i].id) = ex[i].id
         /\ item.items[i].name = JStr(ex[i].name)
         /\ item.items[i].cfu = ex[i].cfu
         /\ item.items[i].grade = JStr(ex[i].grade)

C24_CfuInvariant ==
    \A i \in 1..Len(exams) :
        /\ exams[i].cfu.t = "number"
        /\ exams[i].cfu.k = "int"
        /\ exams[i].cfu.n >= 0

\* the storage held the exam Etica with the cfu text 12.5; the user typed 7.5 into its
\* cfu box and then merged a stored plan: Etica has 7 cfu and the merged exam 9
C24_Witness ==
    /\ Len(exams) >= 2
    /\ exams[1].name = <<"Etica">> /\ exams[1].cfu = JNum(7)
    /\ lookup.merges = 1
    /\ exams[Len(exams)].cfu = JNum(9)

\* C27: the what-if selection stays aligned. In every settled state the selected id is
\* the id of an exam of the list when the list is not empty, and the empty id (0)
\* when it is empty.
C27_WhatIfAligned ==
    /\ (whatIfExamId = 0) <=> (exams = <<>>)
    /\ exams # <<>> => \E i \in 1..Len(exams) : exams[i].id = whatIfExamId

\* the selected exam was removed and the selection moved to the first exam left, which
\* is not the first exam of the demo list; the list was then extended by a merge
C27_Witness ==
    /\ Len(exams) >= 2
    /\ exams[1].id = whatIfExamId
    /\ exams[1].name = <<"Fisica", " ", "1">>
    /\ lookup.merges = 1

\* a step of the import after the one that read the file: it takes the answer of the
\* GET (and the user's answer to the prompt), the answer of the POST, or a failed fetch
\* (a reload of the page, which drops the import, leaves no result: imp' = IdleImp)
ImportFollowUp == imp.pc \in {"checking", "saving"} /\ imp' # imp /\ imp' # IdleImp

\* the page is reloaded in this step while the lookup modal was in use
ReloadsPage == lookup' # lookup /\ lookup' = [IdleLookup EXCEPT !.merges = lookup.merges]

\* C25: the import writes the exam list exactly once. An import changes the list only
\* in the step that has read the file (which replaces it by the imported rows); no
\* later step of the import (the answer of the GET, the prompt confirmed or declined,
\* the answer of the POST, a conflict, an error, a failed fetch) writes the list or the
\* stored value, so what the user has edited meanwhile is kept. A step of the lookup
\* modal writes the list only when it is the merge of add-selected; sending a search
\* and taking its answer leave the list alone.
C25_ImportWritesOnce ==
    [][/\ (imp' # imp /\ imp' # IdleImp /\ exams' # exams)
            => (imp.pc = "reading" /\ imp'.pc = "checking")
       /\ ImportFollowUp => (exams' = exams /\ storage' = storage)
       /\ (lookup' # lookup /\ exams' # exams) => (MergeStep \/ ReloadsPage)
       /\ ((LookupStarts \/ LookupEnds \/ Reopens) /\ ~ReloadsPage) => exams' = exams]_vars

\* the import of 07-89.csv replaced the list by Algebra (6 cfu) and Fisica 1; while the
\* requests were under way the user set the cfu of Algebra to 7; the plan exists, the
\* user confirmed and the save was refused: the list is the imported one with the edit
C25_Witness ==
    /\ imp.pc = "idle" /\ imp.result = "save"
    /\ status = "Errore: Errore salvataggio API"
    /\ Len(exams) = 2
    /\ exams[1].name = <<"Algebra">> /\ exams[1].cfu = JNum(7)
    /\ exams[2].name = <<"Fisica", " ", "1">>

\* the import ends in this step with the status "Piano salvato."
EndsSaved == imp.pc = "saving" /\ imp'.result = "saved" /\ status' = "Piano salvato."

\* the (title, cfu) pairs of a sequence of plan rows
TitlesAndCfu(rows) == [i \in 1..Len(rows) |-> <<rows[i].denominazione, rows[i].cfu>>]

\* C26 as stated: whenever an import ends with the status "Piano salvato.", the
\* document stored under the code of the file has rows whose (denominazione, cfu)
\* sequence is the (name, cfu) sequence of the list this import set locally, which is
\* that of its planRows.
C26_AsStated ==
    [][EndsSaved =>
         \E d \in table' :
             /\ d.code = imp.code
             /\ TitlesAndCfu(d.rows) = TitlesAndCfu(imp.planRows)]_vars

\* C26 (what holds): whenever an import ends with the status "Piano salvato.", the
\* document stored under the code of the file holds, in order, exactly those rows of
\* the imported list whose cfu is at most 30; the rows above 30 are in the local list
\* only.
C26_SavedRowsAreCleaned ==
    [][EndsSaved =>
         \E d \in table' :
             /\ d.code = imp.code
             /\ TitlesAndCfu(d.rows)
                  = SelectSeq(TitlesAndCfu(imp.planRows), LAMBDA p : NumLE(p[2], 30))]_vars

\* the GETs of doLookupPlan whose answer the client has not taken yet
InFlight == lookup.calls

\* the request of the lookup started last: slots are taken in ascending order and never
\* reused, and in SpecLookup every request is the GET of a lookup
LatestLookup == CHOOSE r \in Req : reqs[r].pc # "idle" /\ \A q \in Req : q > r => reqs[q].pc = "idle"

\* C28 as stated: no stale lookup result. At most one GET of a lookup is in flight at a
\* time, and whenever the modal shows a found plan while no lookup is pending, that
\* plan is the answer to the lookup started last.
C28_AsStated ==
    /\ Cardinality(InFlight) <= 1
    /\ (lookup.open /\ lookup.foundPlan # {} /\ InFlight = {})
         => /\ Answered(LatestLookup)
            /\ lookup.foundPlan = reqs[LatestLookup].data

\* the stale result on screen: the lookup started last was answered with an error, and
\* the modal shows the plan that the answer of the earlier lookup brought afterwards,
\* under the message "Piano trovato", while no search is running
C28_StaleResultShown ==
    /\ lookup.open /\ ~lookup.loading /\ InFlight = {}
    /\ lookup.foundPlan = {LookupDoc}
    /\ lookup.message = "Piano trovato"
    /\ Answered(1) /\ reqs[1].status = 200
    /\ Answered(2) /\ reqs[2].status = 500

(***************************************************************************)
(* Properties of repeated merges                                           *)
(***************************************************************************)
\* the rows of `sel` at the positions of the set K, in order
RowsAt(sel, K) ==
    LET RECURSIVE from(_)
        from(i) == IF i > Len(sel) THEN <<>>
                   ELSE (IF i \in K THEN <<sel[i]>> ELSE <<>>) \o from(i + 1)
    IN from(1)

\* the exams `added` are rows of `sel`, in the order of `sel`, each with its title and
\* cfu and an empty grade
InPlanOrder(added, sel) ==
    \E K \in SUBSET (1..Len(sel)) :
        LET rows == RowsAt(sel, K)
        IN /\ Len(rows) = Len(added)
           /\ \A i \in 1..Len(added) :
                /\ added[i].name = rows[i].denominazione
                /\ added[i].cfu = rows[i].cfu
                /\ added[i].grade = <<>>

\* the merge that comes after a merge of all the rows of the plan and selects all of
\* them again; between two merges of SpecLookup nothing else writes the list
MergesAllAgain ==
    /\ MergeStep
    /\ lookup.merges >= 1
    /\ lookup.report.added + lookup.report.skipped = Len(foundRows)
    /\ lookup.selectedIdx = 1..Len(foundRows)

\* C29: a merge is append-only and idempotent. Every merge keeps the exams of the list
\* as they were and where they were, and what it appends are selected rows in the
\* order of the plan; merging the same selected rows once more into the list the merge
\* has left adds nothing, all of them being skipped; and a merge that selects all rows
\* of the plan again after a merge of all its rows leaves the list as it is and
\* reports no exam added and every selected row skipped.
C29_MergeAppendOnlyIdempotent ==
    [][MergeStep =>
         /\ Len(exams') >= Len(exams)
         /\ SubSeq(exams', 1, Len(exams)) = exams
         /\ InPlanOrder(SubSeq(exams', Len(exams) + 1, Len(exams')), SelectedNow)
         /\ toAddOf(exams', SelectedNow, nextId') = <<>>
         /\ MergesAllAgain =>
              /\ exams' = exams
              /\ lookup'.report = [added |-> 0, skipped |-> Len(SelectedNow)]
              /\ status' = "Aggiunti esami dal piano (saltati duplicati)."]_vars

\* the second merge of all three rows of the plan 12-34 into the demo list: the first
\* had added the row with 9 cfu as the fourth exam, the second added nothing and
\* skipped all three
C29_Witness ==
    /\ lookup.merges = 2
    /\ lookup.selectedIdx = {1, 2, 3}
    /\ lookup.report = [added |-> 0, skipped |-> 3]
    /\ Len(exams) = 4
    /\ exams[4].name = <<"Analisi", " ", "1">> /\ exams[4].cfu = JNum(9)
    /\ status = "Aggiunti esami dal piano (saltati duplicati)."

=============================================================================
